---- MODULE Spec2Model ----
(***************************************************************************)
(* xiv-midi: MIDI note events turned into monophonic synthetic key         *)
(* presses.  The model follows src/src/midi.rs (parser), src/src/mapping.rs*)
(* (mapping table and octave transposition), src/src/keyboard.rs (the      *)
(* Enigo keyboard controller) and src/src/engine.rs (NoteScheduler, the    *)
(* bounded channel, the transport callback and the processing thread).     *)
(***************************************************************************)
EXTENDS Integers, Sequences, FiniteSets, TLC

(***************************************************************************)
(* Bounds of the model.                                                    *)
(***************************************************************************)
\* raw messages the transport delivers in a free-form session
MaxEvents == 3
\* raw messages a burst delivers beyond the channel's capacity
MaxOverflow == 2
\* platform injections that may fail in one behaviour
MaxFaults == 1
\* scheduler calls a direct driver of the scheduler makes
MaxCalls == 3
\* bytes of the longest raw message handed to the parser on its own
MaxLen == 4

\* the connections made in a row on one engine
MaxSessions == 2

\* the longest stream of notes a session is handed
MaxStream == 4

(***************************************************************************)
(* Program constants.                                                      *)
(***************************************************************************)
\* engine.rs:305  channel::bounded::<MidiEvent>(64)
ChannelCapacity == 64
\* engine.rs:13  DEFAULT_MIN_NOTE_GAP, milliseconds
DEFAULT_MIN_NOTE_GAP == 3
\* engine.rs:16  MODIFIER_SETTLE_DELAY, milliseconds
MODIFIER_SETTLE_DELAY == 3

(***************************************************************************)
(* keyboard.rs: Key.  Keys are named as the enum names them.               *)
(***************************************************************************)
ModifierKeys == {"Shift", "Control", "Alt"}

\* Option<T>::None
None == "None"

(***************************************************************************)
(* mapping.rs: Action, NoteMapping, MappingConfig.                         *)
(***************************************************************************)
Press(k) ==
    [op |-> "Press", key |-> k, ms |-> 0,
     shift |-> FALSE, ctrl |-> FALSE, alt |-> FALSE]

Release(k) ==
    [op |-> "Release", key |-> k, ms |-> 0,
     shift |-> FALSE, ctrl |-> FALSE, alt |-> FALSE]

Delay(n) ==
    [op |-> "Delay", key |-> None, ms |-> n,
     shift |-> FALSE, ctrl |-> FALSE, alt |-> FALSE]

SetModifiers(s, c, a) ==
    [op |-> "SetModifiers", key |-> None, ms |-> 0,
     shift |-> s, ctrl |-> c, alt |-> a]

NoteMapping(onp, onr) == [on_press |-> onp, on_release |-> onr]

\* MappingConfig::new: channel Some(0), no mappings, octave_transpose false.
\* The Option<u8> channel is a set of at most one element: {} is None.
MappingConfigNew ==
    [channel |-> {0}, mappings |-> << >>, octave_transpose |-> FALSE]

\* MappingConfig::add_mapping: insert or overwrite the entry of the note
add_mapping(config, note, m) ==
    [config EXCEPT !.mappings =
        [n \in (DOMAIN config.mappings) \cup {note} |->
            IF n = note THEN m ELSE config.mappings[n]]]

\* create_ffxiv_default_mapping: the `keys` array  Q 2 W 3 E R 5 T 6 Y 7 U I
FfxivKeys ==
    <<"Q", "Num2", "W", "Num3", "E", "R", "Num5",
      "T", "Num6", "Y", "Num7", "U", "I">>

CtrlOctave(key) ==
    NoteMapping(<<SetModifiers(FALSE, TRUE, FALSE), Press(key)>>,
                <<Release(key), SetModifiers(FALSE, FALSE, FALSE)>>)

PlainOctave(key) == NoteMapping(<<Press(key)>>, <<Release(key)>>)

ShiftOctave(key) ==
    NoteMapping(<<SetModifiers(TRUE, FALSE, FALSE), Press(key)>>,
                <<Release(key), SetModifiers(FALSE, FALSE, FALSE)>>)

\* one `for (i, key) in keys.iter().enumerate()` loop of the default mapping:
\* add_mapping(base + i, mk(key)) for i = 0 .. 12, in order
RECURSIVE AddOctave(_, _, _, _)
AddOctave(config, base, kind, i) ==
    IF i > Len(FfxivKeys) THEN config
    ELSE LET key == FfxivKeys[i]
             m == CASE kind = "ctrl" -> CtrlOctave(key)
                    [] kind = "plain" -> PlainOctave(key)
                    [] OTHER -> ShiftOctave(key)
         IN AddOctave(add_mapping(config, base + i - 1, m), base, kind, i + 1)

\* a default mapping built from the highest octave down
create_ffxiv_default_mapping_reversed ==
    AddOctave(AddOctave(AddOctave(MappingConfigNew, 72, "shift", 1),
                        60, "plain", 1),
              48, "ctrl", 1)

create_ffxiv_default_mapping ==
    AddOctave(AddOctave(AddOctave(MappingConfigNew, 48, "ctrl", 1),
                        60, "plain", 1),
              72, "shift", 1)

(***************************************************************************)
(* midi.rs: MidiNote::new and MidiMessage::parse.  A raw message is a      *)
(* sequence of bytes; the parser's result is Ok(message) or                *)
(* Err(InvalidMidiMessage(text)).                                          *)
(***************************************************************************)
\* an error that stands for a note-off of note 0
ParseErr_event(text) ==
    [ok |-> TRUE, err |-> None, text |-> None,
     event_type |-> "NoteOff", channel |-> 0, note |-> 0, velocity |-> 0]

ParseErr(text) ==
    [ok |-> FALSE, err |-> "InvalidMidiMessage", text |-> text,
     event_type |-> None, channel |-> 0, note |-> 0, velocity |-> 0]

\* a message with the two data bytes taken in the other order
ParseOk_swapped(t, c, n, v) ==
    [ok |-> TRUE, err |-> None, text |-> None,
     event_type |-> t, channel |-> c, note |-> v, velocity |-> n]

ParseOk(t, c, n, v) ==
    [ok |-> TRUE, err |-> None, text |-> None,
     event_type |-> t, channel |-> c, note |-> n, velocity |-> v]

\* a MidiNote::new that takes every u8
MidiNoteNew_unchecked(note) == note <= 255

\* MidiNote::new(note): Err when note > 127
MidiNoteNew(note) == note <= 127

parse(data) ==
    IF Len(data) < 3 THEN ParseErr("Message too short")
    ELSE LET status == data[1]
             message_type == (status \div 16) * 16     \* status & 0xF0
             channel == status % 16                    \* status & 0x0F
         IN CASE message_type = 128 ->                 \* 0x80
                   IF MidiNoteNew(data[2])
                   THEN ParseOk("NoteOff", channel, data[2], data[3])
                   ELSE ParseErr("Note number out of range")
              [] message_type = 144 ->                 \* 0x90
                   LET velocity == data[3]
                       event_type == IF velocity = 0 THEN "NoteOff"
                                     ELSE "NoteOn"
                   IN IF MidiNoteNew(data[2])
                      THEN ParseOk(event_type, channel, data[2], velocity)
                      ELSE ParseErr("Note number out of range")
              [] OTHER -> ParseErr("Unsupported message type")

(***************************************************************************)
(* mapping.rs: MappingConfig::get_mapping_transposed.  The result is       *)
(* Some((note, mapping)) or None; candidates are u8 values.                *)
(***************************************************************************)
NoMapping ==
    [found |-> FALSE, note |-> 0, mapping |-> NoteMapping(<< >>, << >>)]

Found(n, m) == [found |-> TRUE, note |-> n, mapping |-> m]

\* MappingConfig::get_mapping
get_mapping(config, note) ==
    IF note \in DOMAIN config.mappings THEN Found(note, config.mappings[note])
    ELSE NoMapping

SetMin(S) == CHOOSE x \in S : \A y \in S : x <= y

SetMax(S) == CHOOSE x \in S : \A y \in S : x >= y

\* MidiNote::new(candidate).ok().map(..): None when the candidate is no note
ResolvedAt(mappings, candidate) ==
    IF MidiNoteNew(candidate) THEN Found(candidate, mappings[candidate])
    ELSE NoMapping

\* a shift up that tries one octave only
ShiftUp_once(mappings, candidate) ==
    IF candidate + 12 <= 127 /\ (candidate + 12) \in DOMAIN mappings
    THEN ResolvedAt(mappings, candidate + 12)
    ELSE NoMapping

\* `while candidate + 12 <= 127 { candidate += 12; .. }`
RECURSIVE ShiftUp(_, _)
ShiftUp(mappings, candidate) ==
    IF candidate + 12 <= 127
    THEN IF (candidate + 12) \in DOMAIN mappings
         THEN ResolvedAt(mappings, candidate + 12)
         ELSE ShiftUp(mappings, candidate + 12)
    ELSE NoMapping

\* a shift down that goes by semitones
RECURSIVE ShiftDown_semitone(_, _)
ShiftDown_semitone(mappings, candidate) ==
    IF candidate >= 1
    THEN IF (candidate - 1) \in DOMAIN mappings
         THEN ResolvedAt(mappings, candidate - 1)
         ELSE ShiftDown_semitone(mappings, candidate - 1)
    ELSE NoMapping

\* `while candidate >= 12 { candidate -= 12; .. }`
RECURSIVE ShiftDown(_, _)
ShiftDown(mappings, candidate) ==
    IF candidate >= 12
    THEN IF (candidate - 12) \in DOMAIN mappings
         THEN ResolvedAt(mappings, candidate - 12)
         ELSE ShiftDown(mappings, candidate - 12)
    ELSE NoMapping

\* a loop of the in-range branch that tries up first, then down
RECURSIVE Alternate_up_first(_, _, _)
Alternate_up_first(mappings, down, up) ==
    LET can_down == down >= 12
        can_up == up + 12 <= 127
        down1 == IF can_down THEN down - 12 ELSE down
        up1 == IF can_up THEN up + 12 ELSE up
    IN IF ~can_down /\ ~can_up THEN NoMapping
       ELSE IF can_up /\ up1 \in DOMAIN mappings
       THEN ResolvedAt(mappings, up1)
       ELSE IF can_down /\ down1 \in DOMAIN mappings
       THEN ResolvedAt(mappings, down1)
       ELSE Alternate_up_first(mappings, down1, up1)

\* a loop of the in-range branch that ends as soon as one direction is
\* exhausted
RECURSIVE Alternate_both(_, _, _)
Alternate_both(mappings, down, up) ==
    LET can_down == down >= 12
        can_up == up + 12 <= 127
        down1 == IF can_down THEN down - 12 ELSE down
        up1 == IF can_up THEN up + 12 ELSE up
    IN IF ~can_down \/ ~can_up THEN NoMapping
       ELSE IF down1 \in DOMAIN mappings
       THEN ResolvedAt(mappings, down1)
       ELSE IF up1 \in DOMAIN mappings
       THEN ResolvedAt(mappings, up1)
       ELSE Alternate_both(mappings, down1, up1)

\* the `loop` of the in-range branch: down first, then up, per step
RECURSIVE Alternate(_, _, _)
Alternate(mappings, down, up) ==
    LET can_down == down >= 12
        can_up == up + 12 <= 127
        down1 == IF can_down THEN down - 12 ELSE down
        up1 == IF can_up THEN up + 12 ELSE up
    IN IF ~can_down /\ ~can_up THEN NoMapping
       ELSE IF can_down /\ down1 \in DOMAIN mappings
       THEN ResolvedAt(mappings, down1)
       ELSE IF can_up /\ up1 \in DOMAIN mappings
       THEN ResolvedAt(mappings, up1)
       ELSE Alternate(mappings, down1, up1)

\* a lookup that transposes whatever octave_transpose says
get_mapping_transposed_always(config, note) ==
    LET keys == DOMAIN config.mappings
    IN IF note \in keys THEN Found(note, config.mappings[note])
       ELSE IF keys = {} THEN NoMapping
       ELSE LET min_mapped == SetMin(keys)
                max_mapped == SetMax(keys)
            IN IF note < min_mapped THEN ShiftUp(config.mappings, note)
               ELSE IF note > max_mapped THEN ShiftDown(config.mappings, note)
               ELSE Alternate(config.mappings, note, note)

get_mapping_transposed(config, note) ==
    LET keys == DOMAIN config.mappings
    IN IF note \in keys THEN Found(note, config.mappings[note])
       ELSE IF ~config.octave_transpose THEN NoMapping
       ELSE IF keys = {} THEN NoMapping
       ELSE LET min_mapped == SetMin(keys)
                max_mapped == SetMax(keys)
            IN IF note < min_mapped THEN ShiftUp(config.mappings, note)
               ELSE IF note > max_mapped THEN ShiftDown(config.mappings, note)
               ELSE Alternate(config.mappings, note, note)

(***************************************************************************)
(* State.                                                                  *)
(***************************************************************************)
VARIABLES
    \* the transport: what it delivers ("free" or "burst"), how many raw
    \* messages it has delivered, and whether the connection is alive
    feed, delivered, connected,
    \* the connection attempts made on the engine: the input sources the
    \* transport enumerates, the Result of the last attempt, and how many
    \* channels and processing threads the attempts have created
    connection,
    \* the event the callback has parsed and shown to the observer and has
    \* not yet sent (NoMessage: the callback is not running)
    pending,
    \* how many times the callback has called the observer, and the events
    \* the callback has dropped
    observed, dropped,
    \* engine.rs:305  the bounded channel between callback and thread
    queue,
    \* MidiEngine.mapping behind its Mutex (the installed table, by its
    \* name), and who holds that Mutex
    mapping, mapLock,
    \* the names of the tables the owner of the shared mapping handle may
    \* install
    tables,
    \* MidiEngine.keyboard behind its Mutex: EnigoKeyboardController
    \* {enigo: the keys down at the platform, pressed_keys}, and the holder
    keyboard, kbLock,
    \* platform injections that have failed so far
    faults,
    \* NoteScheduler: current_key, current_modifiers, and the time elapsed
    \* since last_note_time (milliseconds, saturating at the minimum gap)
    current_key, current_modifiers, elapsed,
    \* the processing thread: its position, the event being handled, the
    \* cloned NoteMapping, the locals of the scheduler call in progress, the
    \* call's Result, and the milliseconds left of a thread::sleep
    pc, msg, note_mapping, call, result, sleepLeft,
    \* how many events the thread has received
    received,
    \* the note whose NoteOn pressed the key the scheduler holds (-1: none),
    \* the note that was playing when that NoteOn arrived (-1: none), and the
    \* time since the last key press of play_note (milliseconds, saturating
    \* at the minimum gap)
    playing, replaced, sincePress,
    \* observation, kept when the scheduler is driven directly: the calls
    \* made on it, and the capability calls and sleeps it has issued
    callsMade, trace,
    \* a function of the program applied on its own: its name, its
    \* arguments and, once it has returned, its result
    probe

transportVars ==
    <<feed, delivered, connected, observed, dropped, connection, pending>>

mapVars == <<mapping, mapLock, tables>>

kbVars == <<keyboard, faults>>

schedVars ==
    <<current_key, current_modifiers, elapsed, playing, replaced, sincePress>>

threadVars ==
    <<pc, msg, note_mapping, call, result, sleepLeft, received>>

vars ==
    <<feed, delivered, connected, observed, dropped, queue, mapping, mapLock,
      tables, keyboard, kbLock, faults, current_key, current_modifiers,
      elapsed, pc, msg, note_mapping, call, result, sleepLeft, received,
      playing, replaced, sincePress, callsMade, trace, connection, pending,
      probe>>

(***************************************************************************)
(* keyboard.rs: EnigoKeyboardController.  `inject_ok` is the outcome of    *)
(* the platform call enigo.key(..), consulted only when it is made.        *)
(***************************************************************************)
KeyboardNew == [enigo |-> {}, pressed_keys |-> {}]

\* a press that injects whatever the record says
KeyboardPress_unchecked(kb, key, inject_ok) ==
    IF inject_ok
    THEN [kb |-> [enigo |-> kb.enigo \cup {key},
                  pressed_keys |-> kb.pressed_keys \cup {key}],
          ok |-> TRUE, injected |-> TRUE]
    ELSE [kb |-> kb, ok |-> FALSE, injected |-> TRUE]

\* EnigoKeyboardController::press
KeyboardPress(kb, key, inject_ok) ==
    IF key \in kb.pressed_keys THEN [kb |-> kb, ok |-> TRUE, injected |-> FALSE]
    ELSE IF inject_ok
    THEN [kb |-> [enigo |-> kb.enigo \cup {key},
                  pressed_keys |-> kb.pressed_keys \cup {key}],
          ok |-> TRUE, injected |-> TRUE]
    ELSE [kb |-> kb, ok |-> FALSE, injected |-> TRUE]

\* EnigoKeyboardController::release
KeyboardRelease(kb, key, inject_ok) ==
    IF key \notin kb.pressed_keys THEN [kb |-> kb, ok |-> TRUE, injected |-> FALSE]
    ELSE IF inject_ok
    THEN [kb |-> [enigo |-> kb.enigo \ {key},
                  pressed_keys |-> kb.pressed_keys \ {key}],
          ok |-> TRUE, injected |-> TRUE]
    ELSE [kb |-> kb, ok |-> FALSE, injected |-> TRUE]

\* the outcomes a platform injection can have here
InjectOutcomes == IF faults < MaxFaults THEN {TRUE, FALSE} ELSE {TRUE}

(***************************************************************************)
(* engine.rs: NoteScheduler.                                               *)
(***************************************************************************)
ModifierStateDefault == [shift |-> FALSE, ctrl |-> FALSE, alt |-> FALSE]

NoMods == [some |-> FALSE, shift |-> FALSE, ctrl |-> FALSE, alt |-> FALSE]

SomeMods(s, c, a) == [some |-> TRUE, shift |-> s, ctrl |-> c, alt |-> a]

\* play_note's pre-scan: the last SetModifiers of the list
RECURSIVE TargetMods(_, _)
TargetMods(actions, i) ==
    IF i = 0 THEN NoMods
    ELSE IF actions[i].op = "SetModifiers"
    THEN SomeMods(actions[i].shift, actions[i].ctrl, actions[i].alt)
    ELSE TargetMods(actions, i - 1)

\* play_note's pre-scan: the last Press of the list
RECURSIVE TargetKey(_, _)
TargetKey(actions, i) ==
    IF i = 0 THEN None
    ELSE IF actions[i].op = "Press" THEN actions[i].key
    ELSE TargetKey(actions, i - 1)

\* the processing thread's find_map: the first Press of the list
RECURSIVE FirstPress(_, _)
FirstPress(actions, i) ==
    IF i > Len(actions) THEN None
    ELSE IF actions[i].op = "Press" THEN actions[i].key
    ELSE FirstPress(actions, i + 1)

\* the locals of a scheduler call, and what the call found on entry: the
\* key the scheduler held, its modifier state, the note playing, the
\* keyboard, the trace length
NoCall ==
    [fn |-> None, actions |-> << >>, idx |-> 1, target_key |-> None,
     target_mods |-> NoMods, desired |-> ModifierStateDefault,
     changed |-> FALSE, smIdx |-> 1, smRet |-> None, rawRet |-> None,
     held |-> None, mods |-> ModifierStateDefault, playing |-> -1,
     kb |-> KeyboardNew, mark |-> 0]

\* the state a scheduler call is entered in
OnEntry(c) ==
    [c EXCEPT !.held = current_key, !.mods = current_modifiers,
              !.playing = playing, !.kb = keyboard, !.mark = Len(trace)]

\* trace entries
Issued(what, key, ok) == [call |-> what, key |-> key, ok |-> ok]

Slept(why) == [call |-> "sleep", key |-> why, ok |-> TRUE]

\* a parsed MidiMessage as the channel carries it
Message(r) ==
    [event_type |-> r.event_type, channel |-> r.channel,
     note |-> r.note, velocity |-> r.velocity]

NoMessage == [event_type |-> None, channel |-> 0, note |-> 0, velocity |-> 0]

NoNoteMapping == NoteMapping(<< >>, << >>)

\* no function is applied on its own
NoProbe ==
    [fn |-> None, data |-> << >>, config |-> MappingConfigNew, note |-> 0,
     done |-> FALSE, out |-> None]

\* the first byte of a raw message: any u8
StatusBytes == 0..255

\* the further bytes of a raw message: the ends of the ranges of a data
\* byte and of a u8
DataBytes == {0, 1, 127, 128, 255}

\* the raw messages of n bytes handed to the parser
ByteInputs(n) ==
    IF n = 0 THEN {<< >>}
    ELSE { [i \in 1..n |-> IF i = 1 THEN st[1] ELSE st[2][i - 1]] :
             st \in StatusBytes \X [1..(n - 1) -> DataBytes] }

\* MidiMessage::parse about to be called on a raw message of n bytes
ParseProbes(n) ==
    { [NoProbe EXCEPT !.fn = "parse", !.data = d] : d \in ByteInputs(n) }

\* the notes that tables handed to the lookup may map: the ends of the
\* range, the C of several octaves, and the last note with an octave above
LookupKeys == {0, 12, 48, 60, 72, 115, 120, 127}

\* the entry of a note in such a table, marked with the note
EntryOf(k) == NoteMapping(<<Delay(k)>>, << >>)

\* the tables handed to the lookup: any of the notes mapped, octave
\* transposition off or on
LookupConfigs ==
    { [MappingConfigNew EXCEPT !.mappings = [k \in keys |-> EntryOf(k)],
                               !.octave_transpose = t] :
        keys \in SUBSET LookupKeys, t \in BOOLEAN }

\* get_mapping_transposed about to be called with the note n
LookupProbes(n) ==
    { [NoProbe EXCEPT !.fn = "get_mapping_transposed", !.config = c,
                      !.note = n] : c \in LookupConfigs }

\* what is applied on its own in a session of the given kind: the sizes of
\* a raw message or the notes of a lookup, and the calls of each
ProbeSizes(f) ==
    CASE f = "parse" -> 0..MaxLen
      [] f = "lookup" -> 0..127
      [] f = "default" -> 0..127
      [] f = "search" -> 0..127
      [] f = "balanced" -> 0..MaxStream
      [] OTHER -> {0}

\* the default mapping about to be created and asked for the note n
DefaultProbes(n) == { [NoProbe EXCEPT !.fn = "get_mapping", !.note = n] }

\* the raw messages of a stream of notes: notes 60 and 72, which share the
\* key Q in the default mapping, and note 30, below its range, each on and
\* off, on channel 0
StreamEvents ==
    { <<144, 60, 100>>, <<128, 60, 0>>, <<144, 72, 100>>, <<128, 72, 0>>,
      <<144, 30, 100>>, <<128, 30, 0>> }

\* every NoteOn of the stream is followed, later in it, by the NoteOff of
\* the same note
Balanced(s) ==
    \A i \in DOMAIN s :
       s[i][1] = 144 => \E j \in DOMAIN s : j > i /\ s[j] = <<128, s[i][2], 0>>

\* the balanced streams of n messages
BalancedStreams(n) == { s \in [1..n -> StreamEvents] : Balanced(s) }

\* a session that is handed the stream the transport will deliver
StreamProbes(n) ==
    { [NoProbe EXCEPT !.fn = "stream", !.data = s] : s \in BalancedStreams(n) }

\* the keys of tables loaded from a mapping file: any u8, here the ends of
\* the range of a note and of a u8 and some keys between
FileKeys == {0, 60, 115, 127, 128, 200, 255}

\* the tables loaded from a file, octave transposition off or on
FileConfigs ==
    { [MappingConfigNew EXCEPT !.mappings = [k \in keys |-> EntryOf(k)],
                               !.octave_transpose = t] :
        keys \in SUBSET FileKeys, t \in BOOLEAN }

\* the locals of get_mapping_transposed on entry; `wrapped` tells whether
\* a u8 addition or subtraction has gone out of 0..255
SearchStart ==
    [at |-> "entry", candidate |-> 0, down |-> 0, up |-> 0, wrapped |-> FALSE]

\* get_mapping_transposed about to be run step by step on the note n
SearchProbes(n) ==
    { [NoProbe EXCEPT !.fn = "search", !.config = c, !.note = n,
                      !.data = SearchStart] : c \in FileConfigs }

\* the keyboard capability about to be called on its own: no call made yet
KeyboardProbe == [NoProbe EXCEPT !.fn = "keyboard", !.out = << >>]

\* the keys such calls name: two note keys and a modifier
ProbeKeys == {"Q", "W", "Shift"}

Probes(f, n) ==
    CASE f = "parse" -> ParseProbes(n)
      [] f = "lookup" -> LookupProbes(n)
      [] f = "keyboard" -> {KeyboardProbe}
      [] f = "default" -> DefaultProbes(n)
      [] f = "search" -> SearchProbes(n)
      [] f = "balanced" -> StreamProbes(n)
      [] OTHER -> {NoProbe}

\* the Result of a connection attempt
ConnectOk == [ok |-> TRUE, err |-> None, text |-> None]

ConnectErr(kind, text) == [ok |-> FALSE, err |-> kind, text |-> text]

\* no connection has been attempted
NotConnected == [ok |-> FALSE, err |-> None, text |-> None]

\* the connection of a session that starts connected: one source, found by
\* its name; one channel and one processing thread
Connected ==
    [ports |-> {"Piano"}, device_name |-> "Piano", enumerated |-> TRUE,
     result |-> ConnectOk, channels |-> 1, threads |-> 1]

\* the names of the input sources the transport may enumerate, and the
\* names a caller may ask for
PortNames == {"Piano", "Piano 2"}

DeviceNames == {"Piano", "piano", "Drums"}

\* the engine before any connection attempt, for each set of sources
Unconnected ==
    { [ports |-> ps, device_name |-> None, enumerated |-> FALSE,
       result |-> NotConnected, channels |-> 0, threads |-> 0] :
        ps \in SUBSET PortNames }

\* how a session of the given kind starts
Connections(f) == IF f = "connect" THEN Unconnected ELSE {Connected}

ModifierField == <<"shift", "ctrl", "alt">>

ModifierKey == <<"Shift", "Control", "Alt">>

\* the trace is kept when the scheduler is driven directly
Record(entry) == IF feed = "driver" THEN Append(trace, entry) ELSE trace

\* a capability call made by the scheduler, with the outcome r of
\* KeyboardPress / KeyboardRelease
CapabilityCall(what, key, r) ==
    /\ keyboard' = r.kb
    /\ faults' = IF r.ok THEN faults ELSE faults + 1
    /\ trace' = Record(Issued(what, key, r.ok))

\* `?` on an Err: the call returns the error to the processing loop
ReturnErr ==
    /\ result' = "err"
    /\ pc' = "finish"

\* play_note, lines 116-139 and 155-158: the pre-scan and the branch taken
PlayNoteEntry(actions) ==
    LET tk == TargetKey(actions, Len(actions))
        tm == TargetMods(actions, Len(actions))
    IN /\ call' = OnEntry([NoCall EXCEPT !.fn = "play_note",
                                         !.actions = actions,
                                         !.target_key = tk,
                                         !.target_mods = tm,
                                         !.rawRet = "finish"])
       /\ pc' = IF tk # None THEN "pn_release" ELSE "raw"
       /\ result' = "ok"

\* a handle_note_off that replays the actions whatever key is held
HandleNoteOffAlways(actions, released_key) ==
    /\ call' = OnEntry([NoCall EXCEPT
                          !.fn = "handle_note_off", !.actions = actions,
                          !.rawRet = IF released_key # None
                                     THEN "off_clear" ELSE "finish"])
    /\ pc' = "raw"
    /\ result' = "ok"

\* handle_note_off, lines 164-182: which branch is taken
HandleNoteOffEntry(actions, released_key) ==
    /\ call' = OnEntry([NoCall EXCEPT
                          !.fn = "handle_note_off", !.actions = actions,
                          !.rawRet = IF released_key # None
                                     THEN "off_clear" ELSE "finish"])
    /\ pc' = IF released_key # None /\ current_key # released_key
             THEN "finish" ELSE "raw"
    /\ result' = "ok"

\* a release_current that forgets the held key without releasing it
release_current_forgets ==
    /\ pc = "pn_release"
    /\ current_key' = None
    /\ playing' = -1
    /\ pc' = "pn_gap"
    /\ UNCHANGED <<probe, transportVars, queue, mapVars, kbVars, kbLock,
                   current_modifiers, elapsed, replaced, sincePress, msg,
                   note_mapping, call, result, sleepLeft, callsMade, trace,
                   received>>

\* release_current, called by play_note (line 141)
release_current ==
    /\ pc = "pn_release"
    /\ IF current_key # None
       THEN \E inject_ok \in InjectOutcomes :
              LET r == KeyboardRelease(keyboard, current_key, inject_ok)
              IN /\ current_key' = None                \* take()
                 /\ playing' = -1
                 /\ CapabilityCall("release", current_key, r)
                 /\ IF r.ok THEN pc' = "pn_gap" /\ result' = result
                    ELSE ReturnErr
       ELSE /\ pc' = "pn_gap"
            /\ UNCHANGED <<current_key, playing, keyboard, faults, trace,
                           result>>
    /\ UNCHANGED <<probe, transportVars, queue, mapVars, kbLock, current_modifiers,
                   elapsed, replaced, sincePress, msg, note_mapping, call,
                   sleepLeft, callsMade, received>>

\* a wait_min_gap that never sleeps
wait_min_gap_skipped ==
    /\ pc = "pn_gap"
    /\ pc' = "pn_mods"
    /\ UNCHANGED <<probe, transportVars, queue, mapVars, kbVars, kbLock, schedVars,
                   msg, note_mapping, call, result, sleepLeft, callsMade,
                   trace, received>>

\* wait_min_gap, called by play_note (line 144)
wait_min_gap ==
    /\ pc = "pn_gap"
    /\ IF elapsed < DEFAULT_MIN_NOTE_GAP
       THEN /\ sleepLeft' = DEFAULT_MIN_NOTE_GAP - elapsed
            /\ pc' = "gap_sleep"
            /\ trace' = Record(Slept("gap"))
       ELSE /\ pc' = "pn_mods"
            /\ UNCHANGED <<sleepLeft, trace>>
    /\ UNCHANGED <<probe, transportVars, queue, mapVars, kbVars, kbLock, schedVars,
                   msg, note_mapping, call, result, callsMade, received>>

\* play_note, lines 147-149
play_note_modifiers ==
    /\ pc = "pn_mods"
    /\ IF call.target_mods.some
       THEN /\ call' = [call EXCEPT
                          !.desired = [shift |-> call.target_mods.shift,
                                       ctrl |-> call.target_mods.ctrl,
                                       alt |-> call.target_mods.alt],
                          !.changed = FALSE, !.smIdx = 1,
                          !.smRet = "pn_press"]
            /\ pc' = "sm_key"
       ELSE /\ pc' = "pn_press"
            /\ UNCHANGED call
    /\ UNCHANGED <<probe, transportVars, queue, mapVars, kbVars, kbLock, schedVars,
                   msg, note_mapping, result, sleepLeft, callsMade, trace, received>>

\* play_note, lines 152-154: press the new key and record it
play_note_press ==
    /\ pc = "pn_press"
    /\ \E inject_ok \in InjectOutcomes :
         LET r == KeyboardPress(keyboard, call.target_key, inject_ok)
         IN /\ CapabilityCall("press", call.target_key, r)
            /\ IF r.ok
               THEN /\ current_key' = call.target_key
                    /\ elapsed' = 0            \* last_note_time = now
                    /\ playing' = msg.note
                    /\ replaced' = call.playing
                    /\ sincePress' = 0
                    /\ pc' = "finish"
                    /\ result' = result
               ELSE /\ ReturnErr
                    /\ UNCHANGED <<current_key, elapsed, playing, replaced,
                                   sincePress>>
    /\ UNCHANGED <<probe, transportVars, queue, mapVars, kbLock, current_modifiers,
                   msg, note_mapping, call, sleepLeft, callsMade, received>>

\* a set_modifiers that issues the call for the desired state of each
\* modifier whatever is recorded
set_modifiers_key_undiffed ==
    /\ pc = "sm_key"
    /\ LET f == ModifierField[call.smIdx]
           key == ModifierKey[call.smIdx]
           next == IF call.smIdx < 3 THEN "sm_key" ELSE "sm_commit"
           idx1 == IF call.smIdx < 3 THEN call.smIdx + 1 ELSE call.smIdx
       IN \E inject_ok \in InjectOutcomes :
            LET r == IF call.desired[f]
                     THEN KeyboardPress(keyboard, key, inject_ok)
                     ELSE KeyboardRelease(keyboard, key, inject_ok)
            IN /\ CapabilityCall(IF call.desired[f] THEN "press"
                                 ELSE "release", key, r)
               /\ IF r.ok
                  THEN /\ call' = [call EXCEPT !.changed = TRUE,
                                               !.smIdx = idx1]
                       /\ pc' = next
                       /\ result' = result
                  ELSE /\ ReturnErr
                       /\ UNCHANGED call
    /\ UNCHANGED <<probe, transportVars, queue, mapVars, kbLock, schedVars,
                   msg, note_mapping, sleepLeft, callsMade, received>>

\* set_modifiers, lines 78-103: one of the three modifiers
set_modifiers_key ==
    /\ pc = "sm_key"
    /\ LET f == ModifierField[call.smIdx]
           key == ModifierKey[call.smIdx]
           next == IF call.smIdx < 3 THEN "sm_key" ELSE "sm_commit"
           idx1 == IF call.smIdx < 3 THEN call.smIdx + 1 ELSE call.smIdx
       IN IF call.desired[f] # current_modifiers[f]
          THEN \E inject_ok \in InjectOutcomes :
                 LET r == IF call.desired[f]
                          THEN KeyboardPress(keyboard, key, inject_ok)
                          ELSE KeyboardRelease(keyboard, key, inject_ok)
                 IN /\ CapabilityCall(IF call.desired[f] THEN "press"
                                      ELSE "release", key, r)
                    /\ IF r.ok
                       THEN /\ call' = [call EXCEPT !.changed = TRUE,
                                                    !.smIdx = idx1]
                            /\ pc' = next
                            /\ result' = result
                       ELSE /\ ReturnErr
                            /\ UNCHANGED call
          ELSE /\ call' = [call EXCEPT !.smIdx = idx1]
               /\ pc' = next
               /\ UNCHANGED <<keyboard, faults, trace, result>>
    /\ UNCHANGED <<probe, transportVars, queue, mapVars, kbLock, schedVars,
                   msg, note_mapping, sleepLeft, callsMade, received>>

\* where set_modifiers returns to: play_note's press, or the next raw action
SetModifiersReturn ==
    IF call.smRet = "pn_press"
    THEN pc' = "pn_press" /\ UNCHANGED call
    ELSE pc' = "raw" /\ call' = [call EXCEPT !.idx = call.idx + 1]

\* a set_modifiers that settles whenever a modifier is active
set_modifiers_commit_settles ==
    /\ pc = "sm_commit"
    /\ current_modifiers' = call.desired
    /\ IF call.desired.shift \/ call.desired.ctrl \/ call.desired.alt
       THEN /\ sleepLeft' = MODIFIER_SETTLE_DELAY
            /\ pc' = "settle_sleep"
            /\ trace' = Record(Slept("settle"))
            /\ UNCHANGED call
       ELSE /\ SetModifiersReturn
            /\ UNCHANGED <<sleepLeft, trace>>
    /\ UNCHANGED <<probe, transportVars, queue, mapVars, kbVars, kbLock, current_key,
                   elapsed, playing, replaced, sincePress, msg, note_mapping,
                   result, callsMade, received>>

\* set_modifiers, lines 105-112: record the state, settle if needed
set_modifiers_commit ==
    /\ pc = "sm_commit"
    /\ current_modifiers' = call.desired
    /\ IF call.changed
          /\ (call.desired.shift \/ call.desired.ctrl \/ call.desired.alt)
       THEN /\ sleepLeft' = MODIFIER_SETTLE_DELAY
            /\ pc' = "settle_sleep"
            /\ trace' = Record(Slept("settle"))
            /\ UNCHANGED call
       ELSE /\ SetModifiersReturn
            /\ UNCHANGED <<sleepLeft, trace>>
    /\ UNCHANGED <<probe, transportVars, queue, mapVars, kbVars, kbLock, current_key,
                   elapsed, playing, replaced, sincePress, msg, note_mapping,
                   result, callsMade, received>>

\* execute_actions_raw, lines 193-214: the loop is over, Ok(()) is returned
raw_return ==
    /\ pc = "raw"
    /\ call.idx > Len(call.actions)
    /\ pc' = call.rawRet
    /\ UNCHANGED <<probe, transportVars, queue, mapVars, kbVars, kbLock, schedVars,
                   msg, note_mapping, call, result, sleepLeft, callsMade,
                   trace, received>>

\* execute_actions_raw, lines 195-200: Action::Press / Action::Release
raw_key ==
    /\ pc = "raw"
    /\ call.idx <= Len(call.actions)
    /\ LET a == call.actions[call.idx]
       IN /\ a.op \in {"Press", "Release"}
          /\ \E inject_ok \in InjectOutcomes :
               LET r == IF a.op = "Press"
                        THEN KeyboardPress(keyboard, a.key, inject_ok)
                        ELSE KeyboardRelease(keyboard, a.key, inject_ok)
               IN /\ CapabilityCall(IF a.op = "Press" THEN "press"
                                    ELSE "release", a.key, r)
                  /\ IF r.ok
                     THEN /\ call' = [call EXCEPT !.idx = call.idx + 1]
                          /\ pc' = "raw"
                          /\ result' = result
                     ELSE /\ ReturnErr
                          /\ UNCHANGED call
    /\ UNCHANGED <<probe, transportVars, queue, mapVars, kbLock, schedVars,
                   msg, note_mapping, sleepLeft, callsMade, received>>

\* execute_actions_raw, lines 201-203: Action::Delay
raw_delay ==
    /\ pc = "raw"
    /\ call.idx <= Len(call.actions)
    /\ call.actions[call.idx].op = "Delay"
    /\ sleepLeft' = call.actions[call.idx].ms
    /\ pc' = "delay_sleep"
    /\ trace' = Record(Slept("delay"))
    /\ UNCHANGED <<probe, transportVars, queue, mapVars, kbVars, kbLock, schedVars,
                   msg, note_mapping, call, result, callsMade, received>>

\* an execute_actions_raw that steps over Action::SetModifiers
raw_set_modifiers_skipped ==
    /\ pc = "raw"
    /\ call.idx <= Len(call.actions)
    /\ call.actions[call.idx].op = "SetModifiers"
    /\ call' = [call EXCEPT !.idx = call.idx + 1]
    /\ pc' = "raw"
    /\ UNCHANGED <<probe, transportVars, queue, mapVars, kbVars, kbLock, schedVars,
                   msg, note_mapping, result, sleepLeft, callsMade, trace, received>>

\* execute_actions_raw, lines 204-211: Action::SetModifiers
raw_set_modifiers ==
    /\ pc = "raw"
    /\ call.idx <= Len(call.actions)
    /\ LET a == call.actions[call.idx]
       IN /\ a.op = "SetModifiers"
          /\ call' = [call EXCEPT
                        !.desired = [shift |-> a.shift, ctrl |-> a.ctrl,
                                     alt |-> a.alt],
                        !.changed = FALSE, !.smIdx = 1, !.smRet = "raw"]
    /\ pc' = "sm_key"
    /\ UNCHANGED <<probe, transportVars, queue, mapVars, kbVars, kbLock, schedVars,
                   msg, note_mapping, result, sleepLeft, callsMade, trace, received>>

\* a handle_note_off that keeps the key after replaying the release
handle_note_off_keeps ==
    /\ pc = "off_clear"
    /\ pc' = "finish"
    /\ UNCHANGED <<probe, transportVars, queue, mapVars, kbVars, kbLock, schedVars,
                   msg, note_mapping, call, result, sleepLeft, callsMade,
                   trace, received>>

\* handle_note_off, line 176: the replay succeeded, the key is forgotten
handle_note_off_clear ==
    /\ pc = "off_clear"
    /\ current_key' = None
    /\ playing' = -1
    /\ pc' = "finish"
    /\ UNCHANGED <<probe, transportVars, queue, mapVars, kbVars, kbLock,
                   current_modifiers, elapsed, replaced, sincePress, msg,
                   note_mapping, call, result, sleepLeft, callsMade, trace,
                   received>>

\* thread::sleep has lasted its duration: the thread goes on
Wake ==
    /\ pc \in {"gap_sleep", "settle_sleep", "delay_sleep"}
    /\ sleepLeft = 0
    /\ IF pc = "gap_sleep" THEN pc' = "pn_mods" /\ UNCHANGED call
       ELSE IF pc = "settle_sleep" THEN SetModifiersReturn
       ELSE /\ pc' = "raw"
            /\ call' = [call EXCEPT !.idx = call.idx + 1]
    /\ UNCHANGED <<probe, transportVars, queue, mapVars, kbVars, kbLock, schedVars,
                   msg, note_mapping, result, sleepLeft, callsMade, trace, received>>

\* one millisecond passes
Tick ==
    /\ elapsed < DEFAULT_MIN_NOTE_GAP \/ sleepLeft > 0
    /\ elapsed' = IF elapsed < DEFAULT_MIN_NOTE_GAP THEN elapsed + 1
                  ELSE elapsed
    /\ sincePress' = IF sincePress < DEFAULT_MIN_NOTE_GAP THEN sincePress + 1
                     ELSE sincePress
    /\ sleepLeft' = IF sleepLeft > 0 THEN sleepLeft - 1 ELSE 0
    /\ UNCHANGED <<probe, transportVars, queue, mapVars, kbVars, kbLock, current_key,
                   current_modifiers, playing, replaced, pc, msg,
                   note_mapping, call, result, callsMade, trace, received>>

\* the steps of one scheduler call
SchedulerStep ==
    \/ release_current
    \/ wait_min_gap
    \/ play_note_modifiers
    \/ play_note_press
    \/ set_modifiers_key
    \/ set_modifiers_commit
    \/ raw_return
    \/ raw_key
    \/ raw_delay
    \/ raw_set_modifiers
    \/ handle_note_off_clear
    \/ Wake

(***************************************************************************)
(* engine.rs: the transport callback (lines 357-375).                      *)
(***************************************************************************)
\* the raw messages of a free-form session
RawInputs ==
    { <<144, 60, 100>>,      \* note on 60, channel 0
      <<128, 60, 0>>,        \* note off 60, channel 0
      <<144, 72, 100>>,      \* note on 72, channel 0
      <<144, 62, 100>>,      \* note on 62, channel 0
      <<145, 60, 100>> }     \* note on 60, channel 1

\* the i-th raw message of a burst: note 60 on and off in turn, the
\* velocity byte counting the messages
BurstMessage(i) ==
    IF i % 2 = 1 THEN <<144, 60, i>> ELSE <<128, 60, i>>

\* the raw messages of a session with a faulty transport: note 60 on and
\* off and note 62 on, on channel 0, and a message cut short
LiveInputs ==
    { <<144, 60, 100>>, <<128, 60, 0>>, <<144, 62, 100>>, <<144, 60>> }

\* the i-th raw message of a flood of events the default table has no use
\* for: note 60 on channel 1, note 30 on channel 0, and every fourth
\* message cut short; the velocity byte counts the messages
FloodMessage(i) ==
    IF i % 4 = 0 THEN <<144, 60>>
    ELSE IF i % 2 = 1 THEN <<145, 60, i>>
    ELSE <<144, 30, i>>

\* the flood is long enough to overflow the channel
FloodLength == ((ChannelCapacity + MaxOverflow) * 4) \div 3 + 1

\* the raw messages of a session whose table is replaced while it runs:
\* note 30 on and off on channel 0, note 60 on and off on channel 1
SwapInputs ==
    { <<144, 30, 100>>, <<128, 30, 0>>, <<145, 60, 100>>, <<129, 60, 0>> }

\* what the transport may deliver next
Deliverable ==
    CASE feed = "free" /\ delivered < MaxEvents -> RawInputs
      [] feed = "balanced" /\ delivered < Len(probe.data) ->
            {probe.data[delivered + 1]}
      [] feed = "swap" /\ delivered < MaxEvents -> SwapInputs
      [] feed \in {"live", "connect", "reconnect"} /\ delivered < MaxEvents ->
            LiveInputs
      [] feed = "flood" /\ delivered < FloodLength ->
            {FloodMessage(delivered + 1)}
      [] feed = "burst" /\ delivered < ChannelCapacity + MaxOverflow ->
            {BurstMessage(delivered + 1)}
      [] OTHER -> {}

\* a send that makes room by discarding the oldest queued event
try_send_drop_oldest(q, m) ==
    IF Len(q) < ChannelCapacity THEN [queue |-> Append(q, m), ok |-> TRUE]
    ELSE [queue |-> Append(Tail(q), m), ok |-> TRUE]

\* tx.try_send on the bounded channel: Ok, or Err(Full) without waiting
try_send(q, m) ==
    IF Len(q) < ChannelCapacity THEN [queue |-> Append(q, m), ok |-> TRUE]
    ELSE [queue |-> q, ok |-> FALSE]

\* a callback that hands the observer whatever the parser returned
callback_observes_unparsed ==
    /\ connected
    /\ \E data \in Deliverable :
         LET r == parse(data)
             sent == try_send(queue, Message(r))
         IN /\ queue' = IF r.ok THEN sent.queue ELSE queue
            /\ observed' = observed + 1
            /\ dropped' = IF r.ok /\ ~sent.ok
                          THEN dropped \cup {Message(r)} ELSE dropped
    /\ delivered' = delivered + 1
    /\ UNCHANGED <<probe, feed, connected, connection, pending, mapVars,
                   kbVars, kbLock, schedVars, threadVars, callsMade, trace>>

\* a callback that calls the observer only when the channel has room
callback_parse_observes_if_room ==
    /\ connected
    /\ pending = NoMessage
    /\ \E data \in Deliverable :
         LET r == parse(data)
         IN IF r.ok
            THEN /\ observed' = IF Len(queue) < ChannelCapacity
                                THEN observed + 1 ELSE observed
                 /\ pending' = Message(r)
            ELSE UNCHANGED <<observed, pending>>
    /\ delivered' = delivered + 1
    /\ UNCHANGED <<probe, feed, connected, connection, dropped, queue,
                   mapVars, kbVars, kbLock, schedVars, threadVars, callsMade,
                   trace>>

\* lines 360-362: the callback parses the raw message and, on success,
\* calls the observer with a clone of the event; a parse error is logged
callback_parse ==
    /\ connected
    /\ pending = NoMessage
    /\ \E data \in Deliverable :
         LET r == parse(data)
         IN IF r.ok
            THEN /\ observed' = observed + 1
                 /\ pending' = Message(r)
            ELSE UNCHANGED <<observed, pending>>
    /\ delivered' = delivered + 1
    /\ UNCHANGED <<probe, feed, connected, connection, dropped, queue,
                   mapVars, kbVars, kbLock, schedVars, threadVars, callsMade,
                   trace>>

\* lines 364-368: the non-blocking send of the event the observer has seen;
\* the event is dropped when the channel is full
callback_send ==
    /\ pending # NoMessage
    /\ LET sent == try_send(queue, pending)
       IN /\ queue' = sent.queue
          /\ dropped' = IF sent.ok THEN dropped ELSE dropped \cup {pending}
    /\ pending' = NoMessage
    /\ UNCHANGED <<probe, feed, delivered, connected, observed, connection,
                   mapVars, kbVars, kbLock, schedVars, threadVars, callsMade,
                   trace>>

\* lines 360-373, the callback from the parse to the send in one step: on
\* success it calls the observer and then makes the non-blocking send, which
\* drops the event when the channel is full; a parse error is logged
callback ==
    /\ connected
    /\ pending = NoMessage
    /\ \E data \in Deliverable :
         LET r == parse(data)
             sent == try_send(queue, Message(r))
         IN /\ queue' = IF r.ok THEN sent.queue ELSE queue
            /\ observed' = IF r.ok THEN observed + 1 ELSE observed
            /\ dropped' = IF r.ok /\ ~sent.ok
                          THEN dropped \cup {Message(r)} ELSE dropped
    /\ delivered' = delivered + 1
    /\ UNCHANGED <<probe, feed, connected, connection, pending, mapVars,
                   kbVars, kbLock, schedVars, threadVars, callsMade, trace>>

\* a disconnect that also lets go of every key
Disconnect_releasing ==
    /\ connected
    /\ connected' = FALSE
    /\ keyboard' = KeyboardNew
    /\ UNCHANGED <<probe, feed, delivered, observed, dropped, connection,
                   pending, queue, mapVars,
                   faults, kbLock, schedVars, threadVars, callsMade, trace>>

\* the MidiInputConnection is dropped, and the callback's sender with it
Disconnect ==
    /\ connected
    /\ connected' = FALSE
    /\ UNCHANGED <<probe, feed, delivered, observed, dropped, connection,
                   pending, queue, mapVars,
                   kbVars, kbLock, schedVars, threadVars, callsMade, trace>>

(***************************************************************************)
(* Mapping tables of the sessions.                                         *)
(***************************************************************************)
\* the default table, set at run time to listen on all channels and to
\* transpose octaves
FfxivTransposed ==
    [create_ffxiv_default_mapping EXCEPT !.channel = {},
                                         !.octave_transpose = TRUE]

\* a hand-written table: two presses for one note, and a note whose
\* sequences press no key
CustomTable ==
    add_mapping(
      add_mapping([MappingConfigNew EXCEPT !.channel = {}], 60,
                  NoteMapping(<<Press("Q"), Press("W")>>,
                              <<Release("W"), Release("Q")>>)),
      72, NoteMapping(<<SetModifiers(FALSE, FALSE, TRUE), Delay(1)>>,
                      <<SetModifiers(FALSE, FALSE, FALSE)>>))

TableNamed(name) ==
    CASE name = "ffxiv" -> create_ffxiv_default_mapping
      [] name = "transposed" -> FfxivTransposed
      [] OTHER -> CustomTable

TableSets == { {"ffxiv", "transposed"}, {"ffxiv", "custom"} }

(***************************************************************************)
(* engine.rs: the processing thread (lines 308-354).                       *)
(***************************************************************************)
\* a recv that returns the newest queued event
recv_newest ==
    /\ pc = "recv"
    /\ queue # << >>
    /\ msg' = queue[Len(queue)]
    /\ queue' = SubSeq(queue, 1, Len(queue) - 1)
    /\ received' = received + 1
    /\ pc' = "lock_map"
    /\ UNCHANGED <<probe, transportVars, mapVars, kbVars, kbLock, schedVars,
                   note_mapping, call, result, sleepLeft, callsMade, trace>>

\* line 311: rx.recv() returns the oldest queued event
recv ==
    /\ pc = "recv"
    /\ queue # << >>
    /\ msg' = Head(queue)
    /\ queue' = Tail(queue)
    /\ received' = received + 1
    /\ pc' = "lock_map"
    /\ UNCHANGED <<probe, transportVars, mapVars, kbVars, kbLock, schedVars,
                   note_mapping, call, result, sleepLeft, callsMade, trace>>

\* a recv that keeps waiting on a channel without sender
recv_disconnected_blocks ==
    /\ pc = "recv"
    /\ queue = << >>
    /\ ~connected
    /\ UNCHANGED vars

\* line 311: rx.recv() is Err once the channel is empty and has no sender
recv_disconnected ==
    /\ pc = "recv"
    /\ queue = << >>
    /\ ~connected
    /\ pc' = "exited"
    /\ UNCHANGED <<probe, transportVars, queue, mapVars, kbVars, kbLock, schedVars,
                   msg, note_mapping, call, result, sleepLeft, callsMade,
                   trace, received>>

\* line 315: mapping.lock()
lock_mapping ==
    /\ pc = "lock_map"
    /\ mapLock = "free"
    /\ mapLock' = "thread"
    /\ pc' = "lookup"
    /\ UNCHANGED <<probe, transportVars, queue, mapping, tables, kbVars, kbLock,
                   schedVars, msg, note_mapping, call, result, sleepLeft,
                   callsMade, trace, received>>

\* lines 316-320: the channel filter
Filtered(config, m) == config.channel # {} /\ m.channel \notin config.channel

\* a filter path that goes on to the next event with the guard still held
lookup_filtered_keeps_guard ==
    /\ pc = "lookup"
    /\ Filtered(TableNamed(mapping), msg)
    /\ msg' = NoMessage
    /\ pc' = "recv"
    /\ UNCHANGED <<probe, transportVars, queue, mapVars, kbVars, kbLock,
                   schedVars, note_mapping, call, result, sleepLeft,
                   callsMade, trace, received>>

\* a thread that resolves the events of every channel
lookup_filtered_passes ==
    /\ pc = "lookup"
    /\ Filtered(TableNamed(mapping), msg)
    /\ LET r == get_mapping_transposed(TableNamed(mapping), msg.note)
       IN /\ note_mapping' = r.mapping
          /\ pc' = IF r.found THEN "lock_kb" ELSE "recv"
          /\ msg' = IF r.found THEN msg ELSE NoMessage
    /\ mapLock' = "free"
    /\ UNCHANGED <<probe, transportVars, queue, mapping, tables, kbVars,
                   kbLock, schedVars, call, result, sleepLeft, callsMade,
                   trace, received>>

\* lines 316-320: another channel's event; `continue` drops the guard
lookup_filtered ==
    /\ pc = "lookup"
    /\ Filtered(TableNamed(mapping), msg)
    /\ mapLock' = "free"
    /\ msg' = NoMessage
    /\ pc' = "recv"
    /\ UNCHANGED <<probe, transportVars, queue, mapping, tables, kbVars, kbLock,
                   schedVars, note_mapping, call, result, sleepLeft,
                   callsMade, trace, received>>

\* lines 322-328: no mapping resolves; `continue` drops the guard
lookup_unmapped ==
    /\ pc = "lookup"
    /\ ~Filtered(TableNamed(mapping), msg)
    /\ ~get_mapping_transposed(TableNamed(mapping), msg.note).found
    /\ mapLock' = "free"
    /\ msg' = NoMessage
    /\ pc' = "recv"
    /\ UNCHANGED <<probe, transportVars, queue, mapping, tables, kbVars, kbLock,
                   schedVars, note_mapping, call, result, sleepLeft,
                   callsMade, trace, received>>

\* a lookup that keeps the mapping guard for the rest of the iteration
lookup_resolved_keeps_guard ==
    /\ pc = "lookup"
    /\ ~Filtered(TableNamed(mapping), msg)
    /\ LET r == get_mapping_transposed(TableNamed(mapping), msg.note)
       IN /\ r.found
          /\ note_mapping' = r.mapping
    /\ pc' = "lock_kb"
    /\ UNCHANGED <<probe, transportVars, queue, mapVars, kbVars, kbLock,
                   schedVars, msg, call, result, sleepLeft, callsMade,
                   trace, received>>

\* lines 322-329: the resolved NoteMapping is cloned, the guard dropped
lookup_resolved ==
    /\ pc = "lookup"
    /\ ~Filtered(TableNamed(mapping), msg)
    /\ LET r == get_mapping_transposed(TableNamed(mapping), msg.note)
       IN /\ r.found
          /\ note_mapping' = r.mapping
    /\ mapLock' = "free"
    /\ pc' = "lock_kb"
    /\ UNCHANGED <<probe, transportVars, queue, mapping, tables, kbVars, kbLock,
                   schedVars, msg, call, result, sleepLeft, callsMade,
                   trace, received>>

\* line 331: keyboard.lock()
lock_keyboard ==
    /\ pc = "lock_kb"
    /\ kbLock = "free"
    /\ kbLock' = "thread"
    /\ pc' = "dispatch"
    /\ UNCHANGED <<probe, transportVars, queue, mapVars, kbVars, schedVars, msg,
                   note_mapping, call, result, sleepLeft, callsMade, trace, received>>

\* lines 333-346: NoteOn goes to play_note, NoteOff to handle_note_off
dispatch ==
    /\ pc = "dispatch"
    /\ IF msg.event_type = "NoteOn"
       THEN PlayNoteEntry(note_mapping.on_press)
       ELSE HandleNoteOffEntry(note_mapping.on_release,
                               FirstPress(note_mapping.on_press, 1))
    /\ UNCHANGED <<probe, transportVars, queue, mapVars, kbVars, kbLock, schedVars,
                   msg, note_mapping, sleepLeft, callsMade, trace, received>>

\* a loop that ends at the first error of an event
finish_exits_on_error ==
    /\ pc = "finish"
    /\ kbLock' = "free"
    /\ pc' = IF result = "err" THEN "exited" ELSE "recv"
    /\ msg' = NoMessage
    /\ note_mapping' = NoNoteMapping
    /\ call' = NoCall
    /\ result' = None
    /\ UNCHANGED <<probe, transportVars, queue, mapVars, kbVars, schedVars,
                   sleepLeft, callsMade, trace, received>>

\* lines 348-351: an error is logged; the keyboard guard is dropped at the
\* end of the iteration and the loop goes back to recv
finish ==
    /\ pc = "finish"
    /\ kbLock' = "free"
    /\ pc' = "recv"
    /\ msg' = NoMessage
    /\ note_mapping' = NoNoteMapping
    /\ call' = NoCall
    /\ result' = None
    /\ UNCHANGED <<probe, transportVars, queue, mapVars, kbVars, schedVars,
                   sleepLeft, callsMade, trace, received>>

(***************************************************************************)
(* engine.rs: connect and connect_with_callback (lines 252-281) and        *)
(* connect_port_with_callback (lines 289-379).  `init_ok` is the outcome   *)
(* of MidiInput::new and `port_ok` that of midi_in.connect.                *)
(***************************************************************************)
\* the attempt returns `err` before anything is created
ConnectFails(device_name, enumerated, err) ==
    /\ connection' = [connection EXCEPT !.device_name = device_name,
                                        !.enumerated = enumerated,
                                        !.result = err]
    /\ UNCHANGED <<connected, pc>>

\* lines 305-378: the channel is created and the thread spawned, then the
\* transport connects the port; if that fails the sender is dropped with
\* the callback and the thread is left to find the channel disconnected
connect_port_with_callback(device_name, port_ok) ==
    /\ connection' = [connection EXCEPT
                        !.device_name = device_name,
                        !.enumerated = TRUE,
                        !.result = IF port_ok THEN ConnectOk
                                   ELSE ConnectErr("MidiConnection",
                                                   "connect failed"),
                        !.channels = connection.channels + 1,
                        !.threads = connection.threads + 1]
    /\ pc' = "recv"
    /\ connected' = port_ok

\* a connect that falls back to some enumerated source when the name is
\* unknown
connect_with_callback_any_port ==
    /\ connection.threads = 0
    /\ \E device_name \in DeviceNames, init_ok \in BOOLEAN,
          port_ok \in BOOLEAN :
         IF ~init_ok
         THEN ConnectFails(device_name, FALSE,
                           ConnectErr("Midi", "init failed"))
         ELSE IF connection.ports = {}
         THEN ConnectFails(device_name, TRUE,
                           ConnectErr("Mapping", "Device not found"))
         ELSE connect_port_with_callback(device_name, port_ok)
    /\ UNCHANGED <<probe, feed, delivered, observed, dropped, pending, queue,
                   mapVars, kbVars, kbLock, schedVars, msg, note_mapping,
                   call, result, sleepLeft, received, callsMade, trace>>

\* connect_with_callback, lines 257-281, for the first connection of the
\* engine: MidiInput::new, the search of the enumerated sources for the
\* name, and connect_port_with_callback on the source found
connect_with_callback ==
    /\ connection.threads = 0
    /\ \E device_name \in DeviceNames, init_ok \in BOOLEAN,
          port_ok \in BOOLEAN :
         IF ~init_ok
         THEN ConnectFails(device_name, FALSE,
                           ConnectErr("Midi", "init failed"))
         ELSE IF device_name \notin connection.ports
         THEN ConnectFails(device_name, TRUE,
                           ConnectErr("Mapping", "Device not found"))
         ELSE connect_port_with_callback(device_name, port_ok)
    /\ UNCHANGED <<probe, feed, delivered, observed, dropped, pending, queue,
                   mapVars, kbVars, kbLock, schedVars, msg, note_mapping,
                   call, result, sleepLeft, received, callsMade, trace>>

\* connect_with_callback once more on the same engine, after the previous
\* connection was dropped and its thread has left the loop: a new channel,
\* a new thread with NoteScheduler::new(), over the engine's keyboard and
\* mapping as they are
reconnect ==
    /\ ~connected
    /\ pc = "exited"
    /\ connection.threads < MaxSessions
    /\ connection' = [connection EXCEPT !.result = ConnectOk,
                                        !.channels = connection.channels + 1,
                                        !.threads = connection.threads + 1]
    /\ connected' = TRUE
    /\ queue' = << >>
    /\ pc' = "recv"
    /\ current_key' = None
    /\ current_modifiers' = ModifierStateDefault
    /\ elapsed' = DEFAULT_MIN_NOTE_GAP
    /\ playing' = -1
    /\ replaced' = -1
    /\ UNCHANGED <<probe, feed, delivered, observed, dropped, pending,
                   mapVars, kbVars, kbLock, sincePress, msg, note_mapping,
                   call, result, sleepLeft, received, callsMade, trace>>

(***************************************************************************)
(* Other threads of the program that owns the engine.                      *)
(***************************************************************************)
\* EnigoKeyboardController::release_all: every key recorded as pressed is
\* released at the platform, in the map's order, and the record is cleared;
\* at the first failing injection the call returns, the record untouched.
KeyboardReleaseAll(kb, inject_ok, done) ==
    IF inject_ok THEN [enigo |-> kb.enigo \ kb.pressed_keys,
                       pressed_keys |-> {}]
    ELSE [enigo |-> kb.enigo \ done, pressed_keys |-> kb.pressed_keys]

\* MidiEngine::release_all, lines 382-384
release_all ==
    /\ kbLock = "free"
    /\ \/ /\ keyboard' = KeyboardReleaseAll(keyboard, TRUE, {})
          /\ UNCHANGED faults
       \/ /\ faults < MaxFaults
          /\ \E failing \in keyboard.pressed_keys :
               \E done \in SUBSET (keyboard.pressed_keys \ {failing}) :
                  keyboard' = KeyboardReleaseAll(keyboard, FALSE, done)
          /\ faults' = faults + 1
    /\ UNCHANGED <<probe, transportVars, queue, mapVars, kbLock, schedVars,
                   threadVars, callsMade, trace>>

\* the owner of MidiEngine::mapping() locks the table and replaces it
hot_swap ==
    /\ mapLock = "free"
    /\ \E name \in tables \ {mapping} : mapping' = name
    /\ UNCHANGED <<probe, transportVars, queue, mapLock, tables, kbVars, kbLock,
                   schedVars, threadVars, callsMade, trace>>

(***************************************************************************)
(* A direct driver of the scheduler: the caller of play_note and           *)
(* handle_note_off owns the keyboard for the length of the call.           *)
(***************************************************************************)
DriverOnPress ==
    { <<Press("Q")>>,
      <<Press("W")>>,
      <<SetModifiers(TRUE, FALSE, FALSE), Press("Q")>>,
      <<SetModifiers(FALSE, TRUE, FALSE), Press("W")>>,
      <<Delay(1)>> }

DriverOnRelease ==
    { <<Release("Q")>>,
      <<Release("W")>>,
      <<Release("Q"), SetModifiers(FALSE, FALSE, FALSE)>> }

DriverKeys == {None, "Q", "W"}

driver_call ==
    /\ pc = "recv"
    /\ Len(callsMade) < MaxCalls
    /\ kbLock = "free"
    /\ kbLock' = "driver"
    /\ \/ \E actions \in DriverOnPress :
            /\ PlayNoteEntry(actions)
            /\ callsMade' = Append(callsMade,
                  [fn |-> "play_note", actions |-> actions,
                   released_key |-> None])
       \/ \E actions \in DriverOnRelease, released_key \in DriverKeys :
            /\ HandleNoteOffEntry(actions, released_key)
            /\ callsMade' = Append(callsMade,
                  [fn |-> "handle_note_off", actions |-> actions,
                   released_key |-> released_key])
    /\ UNCHANGED <<probe, transportVars, queue, mapVars, kbVars, schedVars, msg,
                   note_mapping, sleepLeft, trace, received>>

(***************************************************************************)
(* The functions of the library applied on their own.                      *)
(***************************************************************************)
engineVars ==
    <<transportVars, queue, mapVars, kbVars, kbLock, schedVars, threadVars,
      callsMade, trace>>

\* MidiMessage::parse(data) returns
apply_parse ==
    /\ probe.fn = "parse"
    /\ ~probe.done
    /\ probe' = [probe EXCEPT !.done = TRUE, !.out = parse(probe.data)]
    /\ UNCHANGED engineVars

\* MappingConfig::get_mapping_transposed(note) returns
apply_lookup ==
    /\ probe.fn = "get_mapping_transposed"
    /\ ~probe.done
    /\ probe' = [probe EXCEPT
                   !.done = TRUE,
                   !.out = get_mapping_transposed(probe.config, probe.note)]
    /\ UNCHANGED engineVars

\* u8 arithmetic
U8(x) == x % 256

\* get_mapping_transposed returns r, its locals as they are
Returned(locals, r) ==
    [probe EXCEPT !.done = TRUE, !.out = r,
                  !.data = [locals EXCEPT !.at = "returned"]]

\* get_mapping_transposed, lines 66-81: the direct lookup, the flag, the
\* range of the keys and the branch taken
search_entry ==
    /\ probe.fn = "search"
    /\ probe.data.at = "entry"
    /\ LET mappings == probe.config.mappings
           keys == DOMAIN mappings
           note == probe.note
       IN probe' =
            IF note \in keys
            THEN Returned(probe.data, Found(note, mappings[note]))
            ELSE IF ~probe.config.octave_transpose
            THEN Returned(probe.data, NoMapping)
            ELSE IF keys = {} THEN Returned(probe.data, NoMapping)
            ELSE [probe EXCEPT !.data =
                    [@ EXCEPT !.candidate = note, !.down = note, !.up = note,
                              !.at = IF note < SetMin(keys) THEN "up"
                                     ELSE IF note > SetMax(keys) THEN "down"
                                     ELSE "both"]]
    /\ UNCHANGED engineVars

\* an upward loop that goes on while the candidate itself is a note
search_up_late ==
    /\ probe.fn = "search"
    /\ probe.data.at = "up"
    /\ LET mappings == probe.config.mappings
           sum == probe.data.candidate + 12
           locals == [probe.data EXCEPT
                        !.candidate = U8(sum),
                        !.wrapped = probe.data.wrapped \/ sum > 255]
       IN probe' =
            IF probe.data.candidate <= 127
            THEN IF U8(sum) \in DOMAIN mappings
                 THEN Returned(locals, ResolvedAt(mappings, U8(sum)))
                 ELSE [probe EXCEPT !.data = locals]
            ELSE Returned(probe.data, NoMapping)
    /\ UNCHANGED engineVars

\* lines 83-90: one turn of `while candidate + 12 <= 127`
search_up ==
    /\ probe.fn = "search"
    /\ probe.data.at = "up"
    /\ LET mappings == probe.config.mappings
           sum == probe.data.candidate + 12
           tested == [probe.data EXCEPT
                        !.wrapped = probe.data.wrapped \/ sum > 255]
           locals == [tested EXCEPT !.candidate = U8(sum)]
       IN probe' =
            IF U8(sum) <= 127
            THEN IF U8(sum) \in DOMAIN mappings
                 THEN Returned(locals, ResolvedAt(mappings, U8(sum)))
                 ELSE [probe EXCEPT !.data = locals]
            ELSE Returned(tested, NoMapping)
    /\ UNCHANGED engineVars

\* lines 91-98: one turn of `while candidate >= 12`
search_down ==
    /\ probe.fn = "search"
    /\ probe.data.at = "down"
    /\ LET mappings == probe.config.mappings
           diff == probe.data.candidate - 12
           locals == [probe.data EXCEPT
                        !.candidate = U8(diff),
                        !.wrapped = probe.data.wrapped \/ diff < 0]
       IN probe' =
            IF probe.data.candidate >= 12
            THEN IF U8(diff) \in DOMAIN mappings
                 THEN Returned(locals, ResolvedAt(mappings, U8(diff)))
                 ELSE [probe EXCEPT !.data = locals]
            ELSE Returned(probe.data, NoMapping)
    /\ UNCHANGED engineVars

\* lines 101-119: one turn of the `loop` of the in-range branch
search_both ==
    /\ probe.fn = "search"
    /\ probe.data.at = "both"
    /\ LET mappings == probe.config.mappings
           sum == probe.data.up + 12
           can_down == probe.data.down >= 12
           can_up == U8(sum) <= 127
           tested == [probe.data EXCEPT
                        !.wrapped = probe.data.wrapped \/ sum > 255]
           down1 == IF can_down THEN U8(probe.data.down - 12)
                    ELSE probe.data.down
           lowered == [tested EXCEPT !.down = down1]
           up1 == IF can_up THEN U8(sum) ELSE probe.data.up
           raised == [lowered EXCEPT !.up = up1]
       IN probe' =
            IF ~can_down /\ ~can_up THEN Returned(tested, NoMapping)
            ELSE IF can_down /\ down1 \in DOMAIN mappings
            THEN Returned(lowered, ResolvedAt(mappings, down1))
            ELSE IF can_up /\ up1 \in DOMAIN mappings
            THEN Returned(raised, ResolvedAt(mappings, up1))
            ELSE [probe EXCEPT !.data = raised]
    /\ UNCHANGED engineVars

\* create_ffxiv_default_mapping() returns
apply_create ==
    /\ probe.fn = "get_mapping"
    /\ probe.config = MappingConfigNew
    /\ probe' = [probe EXCEPT !.config = create_ffxiv_default_mapping]
    /\ UNCHANGED engineVars

\* MappingConfig::get_mapping(note) returns on the table just created
apply_get_mapping ==
    /\ probe.fn = "get_mapping"
    /\ probe.config # MappingConfigNew
    /\ ~probe.done
    /\ probe' = [probe EXCEPT !.done = TRUE,
                              !.out = get_mapping(probe.config, probe.note)]
    /\ UNCHANGED engineVars

\* one call of the keyboard capability as the probe keeps it: the keyboard
\* before the call and what the call returned
KeyboardCall(op, key, before, r) ==
    [op |-> op, key |-> key, before |-> before, r |-> r]

\* KeyboardController::press(key) is called and returns
apply_press ==
    /\ probe.fn = "keyboard"
    /\ Len(probe.out) < MaxCalls
    /\ \E key \in ProbeKeys, inject_ok \in InjectOutcomes :
         LET r == KeyboardPress(keyboard, key, inject_ok)
         IN /\ keyboard' = r.kb
            /\ faults' = IF r.ok THEN faults ELSE faults + 1
            /\ probe' = [probe EXCEPT !.out =
                            Append(@, KeyboardCall("press", key, keyboard, r))]
    /\ UNCHANGED <<transportVars, queue, mapVars, kbLock, schedVars,
                   threadVars, callsMade, trace>>

\* KeyboardController::release(key) is called and returns
apply_release ==
    /\ probe.fn = "keyboard"
    /\ Len(probe.out) < MaxCalls
    /\ \E key \in ProbeKeys, inject_ok \in InjectOutcomes :
         LET r == KeyboardRelease(keyboard, key, inject_ok)
         IN /\ keyboard' = r.kb
            /\ faults' = IF r.ok THEN faults ELSE faults + 1
            /\ probe' = [probe EXCEPT !.out =
                            Append(@, KeyboardCall("release", key, keyboard, r))]
    /\ UNCHANGED <<transportVars, queue, mapVars, kbLock, schedVars,
                   threadVars, callsMade, trace>>

(***************************************************************************)
(* Specifications.                                                         *)
(***************************************************************************)
\* MidiEngine::new followed by a successful connect: the thread is at recv
\* with NoteScheduler::new(), nothing is pressed, the channel is empty
InitWith(f, sets) ==
    /\ feed = f
    /\ connection \in Connections(f)
    /\ delivered = 0
    /\ connected = connection.result.ok
    /\ observed = 0
    /\ dropped = {}
    /\ queue = << >>
    /\ tables \in sets
    /\ mapping \in tables
    /\ mapLock = "free"
    /\ keyboard = KeyboardNew
    /\ kbLock = "free"
    /\ faults = 0
    /\ current_key = None
    /\ current_modifiers = ModifierStateDefault
    /\ elapsed = DEFAULT_MIN_NOTE_GAP
    /\ pc = IF connection.threads = 0 THEN "unspawned" ELSE "recv"
    /\ msg = NoMessage
    /\ note_mapping = NoNoteMapping
    /\ call = NoCall
    /\ result = None
    /\ sleepLeft = 0
    /\ received = 0
    /\ playing = -1
    /\ replaced = -1
    /\ sincePress = DEFAULT_MIN_NOTE_GAP
    /\ callsMade = << >>
    /\ trace = << >>
    /\ pending = NoMessage
    /\ \E n \in ProbeSizes(f) : probe \in Probes(f, n)

Init == InitWith("free", TableSets)

InitBurst == InitWith("burst", {{"ffxiv"}})

InitSched == InitWith("driver", {{"ffxiv"}})

InitFlood == InitWith("flood", {{"ffxiv"}})

InitParse == InitWith("parse", {{"ffxiv"}})

InitConnect == InitWith("connect", {{"ffxiv"}})

InitLookup == InitWith("lookup", {{"ffxiv"}})

Next ==
    \/ callback
    \/ Disconnect
    \/ recv
    \/ recv_disconnected
    \/ lock_mapping
    \/ lookup_filtered
    \/ lookup_unmapped
    \/ lookup_resolved
    \/ lock_keyboard
    \/ dispatch
    \/ SchedulerStep
    \/ finish
    \/ Tick
    \/ release_all
    \/ hot_swap

\* the steps of a burst of one note on the default table, the connection
\* kept open and no other thread at the keyboard
NextBurst ==
    \/ callback
    \/ recv
    \/ lock_mapping
    \/ lookup_resolved
    \/ lock_keyboard
    \/ dispatch
    \/ release_current
    \/ wait_min_gap
    \/ play_note_modifiers
    \/ play_note_press
    \/ raw_return
    \/ raw_key
    \/ handle_note_off_clear
    \/ Wake
    \/ finish
    \/ Tick

\* the steps of the processing thread in a session of one note on the
\* default table
ThreadStepLive ==
    \/ recv
    \/ recv_disconnected
    \/ lock_mapping
    \/ lookup_resolved
    \/ lock_keyboard
    \/ dispatch
    \/ release_current
    \/ wait_min_gap
    \/ play_note_modifiers
    \/ play_note_press
    \/ raw_return
    \/ raw_key
    \/ handle_note_off_clear
    \/ Wake
    \/ finish

NextLive ==
    \/ callback
    \/ Disconnect
    \/ ThreadStepLive
    \/ Tick

InitLive == InitWith("live", {{"ffxiv"}})

NextSched ==
    \/ driver_call
    \/ SchedulerStep
    \/ finish
    \/ Tick

\* the steps of a session whose events the default table has no use for,
\* the callback's steps taken one at a time
NextCallback ==
    \/ callback_parse
    \/ callback_send
    \/ recv
    \/ lock_mapping
    \/ lookup_filtered
    \/ lookup_unmapped

\* the steps of a session from the first connection attempt on
NextConnect ==
    \/ connect_with_callback
    \/ callback
    \/ Disconnect
    \/ ThreadStepLive
    \/ Tick

NextParse == apply_parse

InitSwap == InitWith("swap", {{"ffxiv", "transposed"}})

\* the steps of a session on the default table whose owner changes the
\* channel filter and the octave_transpose flag while it runs
NextSwap ==
    \/ callback
    \/ hot_swap
    \/ recv
    \/ lock_mapping
    \/ lookup_filtered
    \/ lookup_unmapped
    \/ lookup_resolved
    \/ lock_keyboard
    \/ dispatch
    \/ release_current
    \/ wait_min_gap
    \/ play_note_modifiers
    \/ play_note_press
    \/ set_modifiers_key
    \/ set_modifiers_commit
    \/ raw_return
    \/ raw_key
    \/ raw_set_modifiers
    \/ handle_note_off_clear
    \/ Wake
    \/ finish
    \/ Tick

InitBalanced == InitWith("balanced", {{"ffxiv"}, {"transposed"}})

\* the steps of a session on a fixed table
NextBalanced ==
    \/ callback
    \/ recv
    \/ lock_mapping
    \/ lookup_unmapped
    \/ lookup_resolved
    \/ lock_keyboard
    \/ dispatch
    \/ release_current
    \/ wait_min_gap
    \/ play_note_modifiers
    \/ play_note_press
    \/ set_modifiers_key
    \/ set_modifiers_commit
    \/ raw_return
    \/ raw_key
    \/ raw_set_modifiers
    \/ handle_note_off_clear
    \/ Wake
    \/ finish
    \/ Tick

InitReconnect == InitWith("reconnect", {{"ffxiv"}})

\* the steps of an engine that is connected, disconnected without
\* release_all, and connected again
NextReconnect ==
    \/ callback
    \/ Disconnect
    \/ reconnect
    \/ ThreadStepLive
    \/ Tick

InitSearch == InitWith("search", {{"ffxiv"}})

NextSearch ==
    \/ search_entry
    \/ search_up
    \/ search_down
    \/ search_both

InitDefault == InitWith("default", {{"ffxiv"}})

NextDefault ==
    \/ apply_create
    \/ apply_get_mapping

InitKeyboard == InitWith("keyboard", {{"ffxiv"}})

NextKeyboard ==
    \/ apply_press
    \/ apply_release

NextLookup == apply_lookup

\* a session of the engine with free-form input
Spec == Init /\ [][Next]_vars

\* a session of the engine under a burst longer than the channel
SpecBurst == InitBurst /\ [][NextBurst]_vars

\* the scheduler called directly
SpecSched == InitSched /\ [][NextSched]_vars

\* an engine that is created and then connected by name
SpecConnect == InitConnect /\ [][NextConnect]_vars

\* the parser applied to one raw message
SpecParse == InitParse /\ [][NextParse]_vars

\* a session of the engine whose mapping is replaced by its owner
SpecSwap == InitSwap /\ [][NextSwap]_vars

\* a session of the engine on a fixed table, fed a stream in which every
\* NoteOn has its NoteOff
SpecBalanced == InitBalanced /\ [][NextBalanced]_vars

\* an engine whose owner drops the connection and connects again
SpecReconnect == InitReconnect /\ [][NextReconnect]_vars

\* the lookup run step by step on a table loaded from a file; a step that
\* can be taken is taken
SpecSearch == InitSearch /\ [][NextSearch]_vars /\ WF_vars(NextSearch)

\* the default mapping created and asked for one note
SpecDefault == InitDefault /\ [][NextDefault]_vars

\* the keyboard capability called on its own, a few calls in a row
SpecKeyboard == InitKeyboard /\ [][NextKeyboard]_vars

\* the lookup applied to one table and one note
SpecLookup == InitLookup /\ [][NextLookup]_vars

\* a session of the engine under a flood of events that are filtered out or
\* unmapped, with the callback's observer call and send as separate steps
SpecCallback == InitFlood /\ [][NextCallback]_vars

\* a session of the engine in which the processing thread is scheduled
\* whenever it can take a step and time passes
SpecLive ==
    InitLive /\ [][NextLive]_vars /\ WF_vars(ThreadStepLive) /\ WF_vars(Tick)


(***************************************************************************)
(* Properties of the scheduler, checked under SpecSched.                   *)
(***************************************************************************)
\* what the scheduler call in progress has issued so far
CallTrace == SubSeq(trace, call.mark + 1, Len(trace))

IsCapabilityCall(e) == e.call # "sleep"

\* the capability calls of the whole session, sleeps left out
CapTrace == SelectSeq(trace, IsCapabilityCall)

PlayNoteCall(actions) ==
    [fn |-> "play_note", actions |-> actions, released_key |-> None]

NoteKeys == {"Q", "W"}

\* C1: when play_note is entered with a Press in its list while the
\* scheduler holds a key, every press of the new key in that call comes
\* after a successful release of the held key (the same key included), and
\* once the new key is down the key held before is no longer down.
C1_ReleaseBeforePress ==
    (call.fn = "play_note" /\ call.target_key # None /\ call.held # None) =>
       /\ \A j \in 1..Len(CallTrace) :
             (CallTrace[j].call = "press"
                /\ CallTrace[j].key = call.target_key) =>
                \E i \in 1..(j - 1) :
                   CallTrace[i] = Issued("release", call.held, TRUE)
       /\ (pc = "finish" /\ result = "ok" /\ call.held # call.target_key) =>
             /\ call.held \notin keyboard.pressed_keys
             /\ call.target_key \in keyboard.pressed_keys

\* a play_note of the key already held has released it and pressed it again
C1_Witness ==
    /\ call.fn = "play_note"
    /\ call.held = "Q"
    /\ call.target_key = "Q"
    /\ pc = "finish"
    /\ result = "ok"
    /\ Len(CallTrace) >= 2
    /\ CallTrace[1] = Issued("release", "Q", TRUE)
    /\ CallTrace[Len(CallTrace)] = Issued("press", "Q", TRUE)

\* C3: for two different keys k1 and k2, once play_note([Press(k1)]),
\* play_note([Press(k2)]) and handle_note_off(_, k1) have been called with
\* no injection failing, the capability has seen exactly press k1,
\* release k1, press k2 (the note-off adds no call) and the scheduler
\* holds k2, which is down.
C3_StaleNoteOffIgnored ==
    \A k1 \in NoteKeys, k2 \in NoteKeys :
       ( /\ k1 # k2
         /\ faults = 0
         /\ Len(callsMade) = 3
         /\ callsMade[1] = PlayNoteCall(<<Press(k1)>>)
         /\ callsMade[2] = PlayNoteCall(<<Press(k2)>>)
         /\ callsMade[3].fn = "handle_note_off"
         /\ callsMade[3].released_key = k1 ) =>
       /\ CapTrace = <<Issued("press", k1, TRUE), Issued("release", k1, TRUE),
                       Issued("press", k2, TRUE)>>
       /\ current_key = k2
       /\ keyboard.pressed_keys = {k2}

\* the stale note-off of Q has returned while W is held
C3_Witness ==
    /\ Len(callsMade) = 3
    /\ callsMade[1] = PlayNoteCall(<<Press("Q")>>)
    /\ callsMade[2] = PlayNoteCall(<<Press("W")>>)
    /\ callsMade[3] = [fn |-> "handle_note_off",
                       actions |-> <<Release("Q")>>, released_key |-> "Q"]
    /\ faults = 0
    /\ pc = "recv"
    /\ current_key = "W"

\* C5: from Idle, with no injection failing, play_note([Press(k)]) alone
\* leaves exactly one press of k on the capability and k held; followed by
\* handle_note_off([Release(k)], k) it leaves exactly that press and then
\* one release of k, nothing down and no key held.
C5_PressThenRelease ==
    \A k \in NoteKeys :
       /\ ( /\ callsMade = <<PlayNoteCall(<<Press(k)>>)>>
            /\ faults = 0
            /\ pc = "recv" ) =>
          /\ CapTrace = <<Issued("press", k, TRUE)>>
          /\ current_key = k
       /\ ( /\ callsMade = <<PlayNoteCall(<<Press(k)>>),
                             [fn |-> "handle_note_off",
                              actions |-> <<Release(k)>>,
                              released_key |-> k]>>
            /\ faults = 0 ) =>
          /\ \/ CapTrace = <<Issued("press", k, TRUE)>>
             \/ CapTrace = <<Issued("press", k, TRUE),
                             Issued("release", k, TRUE)>>
          /\ pc = "recv" =>
               /\ CapTrace = <<Issued("press", k, TRUE),
                               Issued("release", k, TRUE)>>
               /\ current_key = None
               /\ keyboard.pressed_keys = {}

\* the note-off of the held key has returned
C5_Witness ==
    /\ callsMade = <<PlayNoteCall(<<Press("Q")>>),
                     [fn |-> "handle_note_off", actions |-> <<Release("Q")>>,
                      released_key |-> "Q"]>>
    /\ faults = 0
    /\ pc = "recv"
    /\ Len(trace) = 2

\* C6: play_note presses its key no sooner than the minimum gap after the
\* press before it; a wait it starts lasts at least what is left of the
\* gap; and when a key was held on entry, its release has been issued
\* before the wait is.
C6_MinimumOnsetGap ==
    /\ pc = "pn_press" => sincePress >= DEFAULT_MIN_NOTE_GAP
    /\ pc = "gap_sleep" => sincePress + sleepLeft >= DEFAULT_MIN_NOTE_GAP
    /\ \A j \in 1..Len(CallTrace) :
          (CallTrace[j] = Slept("gap") /\ call.held # None) =>
             \E i \in 1..(j - 1) : CallTrace[i].call = "release"
                                      /\ CallTrace[i].key = call.held

\* a second play_note has waited out the gap after releasing the held key
\* and is about to press
C6_Witness ==
    /\ pc = "pn_press"
    /\ call.held = "Q"
    /\ call.target_key = "W"
    /\ Len(CallTrace) >= 2
    /\ CallTrace[1] = Issued("release", "Q", TRUE)
    /\ CallTrace[2] = Slept("gap")
    /\ sincePress = DEFAULT_MIN_NOTE_GAP

(***************************************************************************)
(* Properties of the engine.                                               *)
(***************************************************************************)
\* the shape of table the monophonic guarantee is stated for: every
\* on_press has exactly one Press, of a non-modifier key k, and every
\* on_release has only Release(k) and SetModifiers
WellFormedMapping(m) ==
    LET presses == {i \in 1..Len(m.on_press) : m.on_press[i].op = "Press"}
    IN /\ Cardinality(presses) = 1
       /\ \A i \in presses : m.on_press[i].key \notin ModifierKeys
       /\ \A i \in 1..Len(m.on_release) :
             \/ m.on_release[i].op = "SetModifiers"
             \/ /\ m.on_release[i].op = "Release"
                /\ \A j \in presses : m.on_release[i].key = m.on_press[j].key

WellFormedTables ==
    { name \in {"ffxiv", "transposed", "custom"} :
        \A n \in DOMAIN TableNamed(name).mappings :
           WellFormedMapping(TableNamed(name).mappings[n]) }

\* C2: in a session whose tables are all of the well-formed shape, at most
\* one non-modifier key is recorded as pressed by the keyboard capability,
\* and a key that is pressed is the scheduler's held key.
C2_Monophonic ==
    tables \subseteq WellFormedTables =>
       LET down == keyboard.pressed_keys \ ModifierKeys
       IN /\ Cardinality(down) <= 1
          /\ \A k \in down : current_key = k

\* C4: when the thread has handled a NoteOff of note a while another note b
\* was playing, b having replaced a, the handler has done nothing: the key
\* held for b is still held and the keyboard is as it was.
C4_StaleNoteOffByNote ==
    ( /\ pc = "finish"
      /\ call.fn = "handle_note_off"
      /\ msg.event_type = "NoteOff"
      /\ FirstPress(note_mapping.on_press, 1) # None
      /\ call.playing \notin {-1, msg.note}
      /\ replaced = msg.note ) =>
    /\ current_key = call.held
    /\ keyboard = call.kb

\* a thread-owned sleep
Sleeping == pc \in {"gap_sleep", "settle_sleep", "delay_sleep"}

\* the statement of the specification: no lock is held across a sleep
C9_NoLockAcrossSleep ==
    Sleeping => mapLock # "thread" /\ kbLock # "thread"

\* C9: while the processing thread sleeps it does not hold the mapping-table
\* lock, whose critical section is the lookup alone; it does hold the
\* keyboard lock, which it keeps for the whole scheduler call of the event.
C9_MappingLockNotAcrossSleep ==
    /\ Sleeping => mapLock # "thread" /\ kbLock = "thread"
    /\ pc \in {"dispatch", "pn_release", "pn_gap", "pn_mods", "pn_press",
               "sm_key", "sm_commit", "raw", "off_clear", "finish"} =>
          kbLock = "thread"

\* the thread sleeps out a Delay action, the keyboard lock in hand
C9_Witness ==
    /\ pc = "delay_sleep"
    /\ sleepLeft > 0
    /\ kbLock = "thread"
    /\ mapLock = "free"

\* C10: the thread holds the mapping-table lock exactly while it reads the
\* filter and resolves the mapping; on each of the three ways out of the
\* lookup the lock is free again, so the thread never holds it together
\* with the keyboard lock nor while it waits for the keyboard lock.
C10_LockOrder ==
    /\ mapLock = "thread" <=> pc = "lookup"
    /\ ~(mapLock = "thread" /\ kbLock = "thread")
    /\ pc = "lock_kb" => mapLock = "free" /\ note_mapping # NoNoteMapping

\* the thread waits for the keyboard lock with a resolved mapping in hand
C10_Witness ==
    /\ pc = "lock_kb"
    /\ mapLock = "free"
    /\ note_mapping # NoNoteMapping
    /\ msg.event_type = "NoteOn"

(***************************************************************************)
(* Properties of the channel, checked under SpecBurst.                     *)
(***************************************************************************)
\* the burst numbers its messages in the velocity byte
Tag(m) == m.velocity

DroppedTags == {Tag(m) : m \in dropped}

\* the numbers of the messages the channel accepted
Accepted(t) == t \in 1..delivered /\ t \notin DroppedTags

AcceptedBefore(t) == Cardinality({u \in 1..(t - 1) : Accepted(u)})

C8_Fifo ==
    /\ \A i \in 1..Len(queue) :
          /\ Accepted(Tag(queue[i]))
          /\ queue[i] = Message(parse(BurstMessage(Tag(queue[i]))))
    /\ \A i \in 1..(Len(queue) - 1) :
          /\ Tag(queue[i]) < Tag(queue[i + 1])
          /\ \A t \in (Tag(queue[i]) + 1)..(Tag(queue[i + 1]) - 1) :
                ~Accepted(t)
    /\ IF queue = << >>
       THEN AcceptedBefore(delivered + 1) = received
       ELSE /\ AcceptedBefore(Tag(queue[1])) = received
            /\ \A t \in (Tag(queue[Len(queue)]) + 1)..delivered :
                  ~Accepted(t)
    /\ msg # NoMessage =>
          /\ Accepted(Tag(msg))
          /\ AcceptedBefore(Tag(msg)) = received - 1

\* the thread is handling an event of a burst that has lost events, with
\* more queued behind it
C8_Witness ==
    /\ msg # NoMessage
    /\ received >= 2
    /\ Len(queue) >= 2
    /\ dropped # {}


(***************************************************************************)
(* Properties of a session with failures, checked under SpecLive.          *)
(***************************************************************************)
\* C11: once a scheduler call has returned an error, the thread issues
\* nothing more for that event and changes no scheduler state, and its next
\* step takes it back to the receive; from then on every event the
\* callback has enqueued is eventually received, and every received event
\* eventually dispatched.
C11_FailOpen ==
    /\ [][result = "err" =>
            /\ UNCHANGED <<keyboard, current_key, current_modifiers>>
            /\ pc' # pc => pc' = "recv"]_vars
    /\ \A n \in 1..MaxEvents :
          [](result = "err" => [](observed >= n => <>(received >= n)))
    /\ [](result = "err" => [](pc = "lock_map" => <>(pc = "dispatch")))

\* an event is dispatched after an injection of an earlier event has failed
C11_Witness ==
    /\ faults > 0
    /\ pc = "dispatch"
    /\ received >= 2

\* C13: a delivery either is of a message that parses, which is passed to
\* the observer and enqueued, or is of a message that does not, which
\* changes nothing but the count of deliveries; and the callback stays
\* ready for the next message as long as the connection lasts.
C13_ParseFailureDropped ==
    /\ [][delivered' # delivered =>
            \E data \in Deliverable :
               LET r == parse(data)
               IN IF r.ok
                  THEN /\ observed' = observed + 1
                       /\ queue' = Append(queue, Message(r))
                  ELSE /\ UNCHANGED <<observed, dropped, queue, connected>>
                       /\ UNCHANGED <<mapVars, kbVars, kbLock, schedVars,
                                      threadVars>>]_vars
    /\ []((connected /\ delivered < MaxEvents) => ENABLED callback)
    /\ [](observed <= delivered /\ received + Len(queue) = observed)

\* a message has been dropped by the parser and another one is queued
C13_Witness ==
    /\ delivered = 2
    /\ observed = 1
    /\ Len(queue) = 1
    /\ received = 0

\* C14: the thread has left its loop only if the connection is dropped and
\* the channel drained, and once the connection is dropped it eventually
\* leaves the loop.
C14_ExitOnDisconnect ==
    /\ [](pc = "exited" => ~connected /\ queue = << >>)
    /\ (~connected) ~> (pc = "exited")

\* the thread has exited after a session in which an injection failed
C14_Witness ==
    /\ pc = "exited"
    /\ faults > 0
    /\ received >= 2


(***************************************************************************)
(* Properties of the scheduler's record of the keyboard.                   *)
(***************************************************************************)
\* the held key and the modifier state say what the keyboard has down
RecordedMatchesKeyboard(key, mods, kb) ==
    /\ kb.pressed_keys \ ModifierKeys = (IF key = None THEN {} ELSE {key})
    /\ \A i \in 1..3 :
          mods[ModifierField[i]] = (ModifierKey[i] \in kb.pressed_keys)

\* C12: when a scheduler call that was entered with a true record of the
\* keyboard returns an error, the held key and the modifier state it leaves
\* are again a true record of the keyboard.
C12_FailureLeavesTrueState ==
    ( /\ pc = "finish"
      /\ result = "err"
      /\ RecordedMatchesKeyboard(call.held, call.mods, call.kb) ) =>
    RecordedMatchesKeyboard(current_key, current_modifiers, keyboard)


(***************************************************************************)
(* Properties of disconnect and release_all, checked under Spec.           *)
(***************************************************************************)
\* C15: the step that drops the connection changes neither the keyboard
\* nor the scheduler's record; and once the connection is dropped, the
\* channel empty and the thread at its receive or gone, the keyboard
\* changes only by a release_all.
C15_DisconnectReleasesNothing ==
    /\ [][(connected /\ ~connected') =>
            UNCHANGED <<keyboard, current_key, current_modifiers>>]_vars
    /\ [][( /\ ~connected
            /\ queue = << >>
            /\ pc \in {"recv", "exited"}
            /\ keyboard' # keyboard ) => release_all]_vars

\* the thread has exited with its key and a modifier still down
C15_Witness ==
    /\ ~connected
    /\ queue = << >>
    /\ pc = "exited"
    /\ current_key = "Q"
    /\ {"Q", "Shift"} \subseteq keyboard.pressed_keys
    /\ {"Q", "Shift"} \subseteq keyboard.enigo


\* C16: once the connection is dropped and nothing is pressed, as it is
\* when release_all has returned, nothing becomes pressed any more.
C16_NoStuckKeyAfterReleaseAll ==
    [][(~connected /\ keyboard.pressed_keys = {}) =>
         keyboard'.pressed_keys = {}]_vars

\* the modifier state says which modifier keys the keyboard has down
ModifiersMatchKeyboard ==
    \A i \in 1..3 :
       current_modifiers[ModifierField[i]]
          = (ModifierKey[i] \in keyboard.pressed_keys)

\* C18: while the connection is active and the thread is between two
\* scheduler calls, the recorded modifier state is the set of modifier keys
\* pressed at the keyboard.
C18_ModifierStateInSync ==
    (connected /\ pc = "recv") => ModifiersMatchKeyboard

\* C17: set_modifiers issues a call on a modifier key only where the
\* desired value differs from the recorded one: a step of set_modifiers on
\* a modifier whose desired value equals the recorded value changes neither
\* the trace nor the keyboard, every press it issues is for a modifier
\* recorded as not asserted and every release for one recorded as
\* asserted, and over any sequence of calls no other step issues a call on
\* a modifier key.
C17_ModifierDiffing ==
    [][LET f == ModifierField[call.smIdx]
           key == ModifierKey[call.smIdx]
       IN /\ (pc = "sm_key" /\ call.desired[f] = current_modifiers[f])
               => UNCHANGED <<trace, keyboard>>
          /\ Len(trace') > Len(trace) =>
               LET e == trace'[Len(trace')]
               IN e.key \in ModifierKeys =>
                    /\ pc = "sm_key"
                    /\ e.key = key
                    /\ e.call = "press" =>
                         ~current_modifiers[f] /\ call.desired[f]
                    /\ e.call = "release" =>
                         current_modifiers[f] /\ ~call.desired[f]]_vars

\* set_modifiers has run for a play_note that wants Shift while Shift was
\* recorded as asserted, and the call has issued nothing on a modifier key
C17_Witness ==
    /\ pc = "pn_press"
    /\ call.target_mods.some
    /\ call.mods.shift
    /\ call.desired.shift
    /\ current_modifiers.shift
    /\ \A i \in 1..Len(CallTrace) : CallTrace[i].key \notin ModifierKeys

\* the scheduler call in progress, as the driver made it
LastCall == callsMade[Len(callsMade)]

ClearsModifiers(actions) ==
    /\ Len(actions) > 0
    /\ actions[Len(actions)] = SetModifiers(FALSE, FALSE, FALSE)

\* C19 as stated: between calls, and with no injection failed, a scheduler
\* that holds no key records shift, ctrl and alt as not asserted.
C19_IdleHasNoModifiers ==
    (pc = "recv" /\ faults = 0 /\ current_key = None)
      => current_modifiers = ModifierStateDefault

\* C19: the scheduler holds no key and records no modifier when it is
\* created, and again when a handle_note_off for the held key whose
\* actions end with SetModifiers(false, false, false) has returned Ok;
\* current_key and current_modifiers are otherwise independent fields.
C19_IdleAfterClearingNoteOff ==
    /\ callsMade = << >>
         => current_key = None /\ current_modifiers = ModifierStateDefault
    /\ ( /\ pc = "finish"
         /\ call.fn = "handle_note_off"
         /\ result = "ok"
         /\ call.held # None
         /\ LastCall.released_key = call.held
         /\ ClearsModifiers(call.actions) )
         => current_key = None /\ current_modifiers = ModifierStateDefault

\* a note played with Shift has been released by a handle_note_off that
\* clears the modifiers
C19_Witness ==
    /\ pc = "finish"
    /\ call.fn = "handle_note_off"
    /\ result = "ok"
    /\ call.held = "Q"
    /\ call.mods.shift
    /\ LastCall.released_key = "Q"
    /\ ClearsModifiers(call.actions)
    /\ current_key = None
    /\ current_modifiers = ModifierStateDefault

\* C20: when a NoteOff of the note that is playing is dispatched, and the
\* key held is the one play_note pressed for the on_press sequence the
\* NoteOff resolved to, the released_key derived for handle_note_off is
\* that key.
C20_ReleasedKeyIsPressedKey ==
    ( /\ pc = "dispatch"
      /\ msg.event_type = "NoteOff"
      /\ playing = msg.note
      /\ current_key # None
      /\ current_key = TargetKey(note_mapping.on_press,
                                 Len(note_mapping.on_press)) )
      => FirstPress(note_mapping.on_press, 1) = current_key

(***************************************************************************)
(* Properties of the callback, checked under SpecCallback.                 *)
(***************************************************************************)
\* how many of the first n messages of the flood parse
RECURSIVE CountParsed(_)
CountParsed(n) ==
    IF n = 0 THEN 0
    ELSE CountParsed(n - 1) + (IF parse(FloodMessage(n)).ok THEN 1 ELSE 0)

\* C21: the observer is called once for every message that parses, in the
\* callback step that parsed it and before the send of that event is
\* attempted: a step that calls the observer calls it once, for the event
\* just parsed, and leaves the channel alone; every send or drop is of the
\* event the observer was last called with; the observer has been called
\* as many times as messages have parsed, and every such event is in the
\* hands of the callback, queued, dropped or received, whatever the thread
\* then makes of it.
C21_ObserverOncePerParsedEvent ==
    /\ [][observed' # observed =>
            /\ pending = NoMessage
            /\ \E data \in Deliverable :
                 /\ parse(data).ok
                 /\ pending' = Message(parse(data))
            /\ observed' = observed + 1
            /\ delivered' = delivered + 1
            /\ UNCHANGED <<queue, dropped, received>>]_vars
    /\ [][(Len(queue') > Len(queue) \/ dropped' # dropped) =>
            /\ pending # NoMessage
            /\ pending' = NoMessage
            /\ UNCHANGED observed
            /\ \/ queue' = Append(queue, pending) /\ UNCHANGED dropped
               \/ dropped' = dropped \cup {pending} /\ UNCHANGED queue]_vars
    /\ [](observed = CountParsed(delivered))
    /\ [](observed = received + Len(queue) + Cardinality(dropped)
                       + (IF pending # NoMessage THEN 1 ELSE 0))

\* the observer has been called with an event that is about to be dropped,
\* after an event has been dropped and another received and ignored
C21_Witness ==
    /\ pending # NoMessage
    /\ Len(queue) = ChannelCapacity
    /\ dropped # {}
    /\ received >= 1
    /\ pc = "recv"
    /\ observed = ChannelCapacity + Cardinality(dropped) + received + 1

(***************************************************************************)
(* Properties of the processing thread's lookup, checked under Spec.       *)
(***************************************************************************)
\* a table that listens on the given channels, and an event of a channel
ListeningOn(chans) == [MappingConfigNew EXCEPT !.channel = chans]

OnChannel(ch) == [NoMessage EXCEPT !.channel = ch]

\* C22: the thread's step at the lookup goes by the filter of the table
\* installed at that step: an event of another channel than the filter's
\* sends the thread back to the receive with the keyboard and the scheduler
\* unchanged; any other event is resolved and, when a mapping is found,
\* goes on to the keyboard lock with that mapping.  A filter c lets pass
\* channel c only, and an absent filter lets pass all 16 channels.
C22_ChannelFilter ==
    [][(pc = "lookup" /\ pc' # pc) =>
        LET config == TableNamed(mapping)
            r == get_mapping_transposed(config, msg.note)
        IN /\ IF Filtered(config, msg)
              THEN /\ pc' = "recv"
                   /\ UNCHANGED <<keyboard, faults, schedVars, call, trace>>
              ELSE IF r.found
              THEN pc' = "lock_kb" /\ note_mapping' = r.mapping
              ELSE pc' = "recv"
           /\ \A ch \in 0..15 :
                /\ ~Filtered(ListeningOn({}), OnChannel(ch))
                /\ \A c \in 0..15 :
                     Filtered(ListeningOn({c}), OnChannel(ch)) <=> ch # c]_vars

\* an event of channel 1 is at the lookup while the default table, which
\* listens on channel 0, is installed and a key is held
C22_Witness ==
    /\ pc = "lookup"
    /\ msg.channel = 1
    /\ mapping = "ffxiv"
    /\ Filtered(TableNamed(mapping), msg)
    /\ current_key = "Q"
    /\ "Q" \in keyboard.pressed_keys

\* an event of channel 1 has passed the lookup of a table without filter
C22_WitnessUnfiltered ==
    /\ pc = "dispatch"
    /\ msg.channel = 1
    /\ TableNamed(mapping).channel = {}
    /\ note_mapping # NoNoteMapping

(***************************************************************************)
(* Properties of the parser, checked under SpecParse.                      *)
(***************************************************************************)
\* the parser has returned
Parsed == probe.fn = "parse" /\ probe.done

\* the nibbles of the status byte, when there is one
StatusHigh == probe.data[1] \div 16

StatusLow == probe.data[1] % 16

IsEvent(out, t, c, n, v) ==
    /\ out.ok
    /\ out.event_type = t
    /\ out.channel = c
    /\ out.note = n
    /\ out.velocity = v

\* C23 as stated: a message of three bytes or more with status 0x9c is a
\* NoteOn of channel c, note byte 1 and velocity byte 2 when byte 2 is not
\* 0 and a NoteOff of that channel and note when it is 0, and with status
\* 0x8c a NoteOff of note byte 1 and velocity byte 2.
C23_NoteEventsParsed ==
    (Parsed /\ Len(probe.data) >= 3) =>
       LET d == probe.data
       IN /\ (StatusHigh = 9 /\ d[3] > 0)
               => IsEvent(probe.out, "NoteOn", StatusLow, d[2], d[3])
          /\ (StatusHigh = 9 /\ d[3] = 0)
               => IsEvent(probe.out, "NoteOff", StatusLow, d[2], 0)
          /\ StatusHigh = 8
               => IsEvent(probe.out, "NoteOff", StatusLow, d[2], d[3])

\* C23: the same for every message whose note byte is at most 127; the
\* velocity byte is taken as it is, whatever its value.
C23_NoteEventsParsedInRange ==
    (Parsed /\ Len(probe.data) >= 3 /\ probe.data[2] <= 127) =>
       LET d == probe.data
       IN /\ (StatusHigh = 9 /\ d[3] > 0)
               => IsEvent(probe.out, "NoteOn", StatusLow, d[2], d[3])
          /\ (StatusHigh = 9 /\ d[3] = 0)
               => IsEvent(probe.out, "NoteOff", StatusLow, d[2], 0)
          /\ StatusHigh = 8
               => IsEvent(probe.out, "NoteOff", StatusLow, d[2], d[3])

\* a four-byte note-on of channel 15, note 127, velocity 255 has parsed
C23_Witness ==
    /\ Parsed
    /\ probe.data = <<159, 127, 255, 0>>
    /\ IsEvent(probe.out, "NoteOn", 15, 127, 255)

\* C24: a message of 0, 1 or 2 bytes, whatever the bytes, fails as too
\* short and yields no event.
C24_ShortMessageFails ==
    (Parsed /\ Len(probe.data) < 3) =>
       /\ ~probe.out.ok
       /\ probe.out.text = "Message too short"
       /\ probe.out.event_type = None

\* the first two bytes of a note-on have been refused
C24_Witness ==
    /\ Parsed
    /\ probe.data = <<144, 127>>
    /\ ~probe.out.ok
    /\ probe.out.text = "Message too short"

\* what a message of at least three bytes fails for, if it does
Unsupported == Len(probe.data) >= 3 /\ StatusHigh \notin {8, 9}

OutOfRange ==
    Len(probe.data) >= 3 /\ StatusHigh \in {8, 9} /\ probe.data[2] > 127

\* C25 as stated: an unsupported status and a note byte over 127 fail,
\* yield no event, and fail with error kinds that differ from each other
\* and from the kind a short message fails with.
C25_DistinctErrorKinds ==
    (Parsed /\ (Unsupported \/ OutOfRange)) =>
       /\ ~probe.out.ok
       /\ probe.out.event_type = None
       /\ probe.out.err # parse(<< >>).err
       /\ Unsupported => probe.out.err # parse(<<144, 128, 0>>).err
       /\ OutOfRange => probe.out.err # parse(<<0, 0, 0>>).err

\* C25: an unsupported status and a note byte over 127 fail and yield no
\* event; both fail with InvalidMidiMessage, the kind a short message
\* fails with, and the three failures differ in the text of the error.
C25_ParseFailuresByText ==
    (Parsed /\ (Unsupported \/ OutOfRange)) =>
       /\ ~probe.out.ok
       /\ probe.out.event_type = None
       /\ probe.out.err = "InvalidMidiMessage"
       /\ probe.out.err = parse(<< >>).err
       /\ probe.out.text # parse(<< >>).text
       /\ Unsupported => probe.out.text = "Unsupported message type"
       /\ OutOfRange => probe.out.text = "Note number out of range"

\* a note-on of note 128 has been refused
C25_Witness ==
    /\ Parsed
    /\ probe.data = <<144, 128, 1>>
    /\ ~probe.out.ok
    /\ probe.out.text = "Note number out of range"

(***************************************************************************)
(* Properties of the lookup, checked under SpecLookup.                     *)
(***************************************************************************)
\* the lookup has returned
Looked == probe.fn = "get_mapping_transposed" /\ probe.done

MappedNotes == DOMAIN probe.config.mappings

\* the mapped notes of the queried note's pitch class
SamePitchClass(a, b) == (a + 132 - b) % 12 = 0

MappedOctaves ==
    { c \in MappedNotes : SamePitchClass(c, probe.note) }

Distance(c) == IF c >= probe.note THEN c - probe.note ELSE probe.note - c

ReturnsEntry(n) ==
    /\ probe.out.found
    /\ probe.out.note = n
    /\ probe.out.mapping = probe.config.mappings[n]

\* C26: with octave_transpose false the lookup returns the note and its
\* own entry for a note of the table, and nothing for any other note,
\* whatever the table holds.
C26_NoTransposeDirectOnly ==
    (Looked /\ ~probe.config.octave_transpose) =>
       IF probe.note \in MappedNotes THEN ReturnsEntry(probe.note)
       ELSE ~probe.out.found

\* note 36 has been looked up in the table {48, 60, 72} without
\* transposition, and nothing was returned
C26_Witness ==
    /\ Looked
    /\ ~probe.config.octave_transpose
    /\ MappedNotes = {48, 60, 72}
    /\ probe.note = 36
    /\ ~probe.out.found

\* C27: with transposition on and the note unmapped, an empty table gives
\* nothing; a note below the lowest mapped note resolves to the nearest
\* mapped note that is whole octaves above it, and to nothing if there is
\* none; a note above the highest mapped note resolves to the nearest
\* mapped note that is whole octaves below it, and to nothing if there is
\* none.
C27_OutOfSpanTransposition ==
    (Looked /\ probe.config.octave_transpose /\ probe.note \notin MappedNotes)
      => /\ MappedNotes = {} => ~probe.out.found
         /\ (MappedNotes # {} /\ probe.note < SetMin(MappedNotes)) =>
              LET above == { c \in MappedOctaves : c > probe.note }
              IN IF above = {} THEN ~probe.out.found
                 ELSE ReturnsEntry(SetMin(above))
         /\ (MappedNotes # {} /\ probe.note > SetMax(MappedNotes)) =>
              LET below == { c \in MappedOctaves : c < probe.note }
              IN IF below = {} THEN ~probe.out.found
                 ELSE ReturnsEntry(SetMax(below))

\* note 36 has been looked up in the table {48, 60, 72} with transposition
\* and resolved to 48
C27_Witness ==
    /\ Looked
    /\ probe.config.octave_transpose
    /\ MappedNotes = {48, 60, 72}
    /\ probe.note = 36
    /\ ReturnsEntry(48)

\* C28: with transposition on and the note unmapped and strictly between
\* the lowest and the highest mapped note, the lookup resolves to the
\* mapped note of the same pitch class that is fewest octaves away, to the
\* lower one when two are equally far, and to nothing when no octave of
\* the note is mapped: the order note-12, note+12, note-24, note+24, ...
C28_InSpanTransposition ==
    ( /\ Looked
      /\ probe.config.octave_transpose
      /\ probe.note \notin MappedNotes
      /\ MappedNotes # {}
      /\ SetMin(MappedNotes) < probe.note
      /\ probe.note < SetMax(MappedNotes) )
      => IF MappedOctaves = {} THEN ~probe.out.found
         ELSE /\ probe.out.found
              /\ ReturnsEntry(probe.out.note)
              /\ probe.out.note \in MappedOctaves
              /\ \A c \in MappedOctaves :
                   \/ Distance(probe.out.note) < Distance(c)
                   \/ /\ Distance(probe.out.note) = Distance(c)
                      /\ probe.out.note <= c

\* note 60 has been looked up in a table that maps 48 and 72 and not 60,
\* and resolved to 48
C28_Witness ==
    /\ Looked
    /\ probe.config.octave_transpose
    /\ {48, 72} \subseteq MappedNotes
    /\ probe.note = 60
    /\ 60 \notin MappedNotes
    /\ ReturnsEntry(48)

\* C29: what the lookup returns is a note of the table with that note's
\* entry, of the pitch class of the queried note, and it is the queried
\* note itself unless that note is unmapped and transposition is on.
C29_ResolvedNoteSound ==
    (Looked /\ probe.out.found) =>
       /\ probe.out.note \in MappedNotes
       /\ probe.out.mapping = probe.config.mappings[probe.out.note]
       /\ SamePitchClass(probe.out.note, probe.note)
       /\ probe.out.note # probe.note =>
            probe.note \notin MappedNotes /\ probe.config.octave_transpose

\* note 108 has been looked up in the table {48, 60, 72} and resolved to
\* 72, three octaves down
C29_Witness ==
    /\ Looked
    /\ MappedNotes = {48, 60, 72}
    /\ probe.note = 108
    /\ probe.out.found
    /\ probe.out.note = 72
    /\ probe.out.mapping = EntryOf(72)

(***************************************************************************)
(* Properties of the connection, checked under SpecConnect.                *)
(***************************************************************************)
DeviceNotFound == ConnectErr("Mapping", "Device not found")

\* C30: a connection attempt that has enumerated the sources and whose
\* device name is the name of none of them returns the device-not-found
\* error, which no other failure of a connection returns, and creates no
\* channel, spawns no thread and leaves the keyboard alone; as long as
\* that error is the last result nothing has been created.
C30_UnknownDeviceFails ==
    /\ [][( /\ connection' # connection
            /\ connection'.enumerated
            /\ connection'.device_name \notin connection'.ports )
            => /\ connection'.result = DeviceNotFound
               /\ connection'.channels = connection.channels
               /\ connection'.threads = connection.threads
               /\ UNCHANGED <<connected, pc, queue, keyboard, faults,
                              schedVars, observed>>]_vars
    /\ [][connection'.result = DeviceNotFound =>
            connection'.device_name \notin connection'.ports]_vars
    /\ [](connection.result = DeviceNotFound =>
            /\ connection.threads = 0
            /\ connection.channels = 0
            /\ pc = "unspawned"
            /\ ~connected
            /\ queue = << >>
            /\ keyboard = KeyboardNew)

\* "piano" has been asked for where the transport enumerates "Piano"
C30_Witness ==
    /\ connection.device_name = "piano"
    /\ "Piano" \in connection.ports
    /\ connection.result = DeviceNotFound
    /\ pc = "unspawned"


(***************************************************************************)
(* Properties of the keyboard capability, checked under SpecKeyboard.      *)
(***************************************************************************)
\* the call has nothing to do: a press of a key recorded as pressed, a
\* release of a key not recorded as pressed
Redundant(c) ==
    IF c.op = "press" THEN c.key \in c.before.pressed_keys
    ELSE c.key \notin c.before.pressed_keys

\* the call is the same operation on the same key as a call that succeeded
Repeats(c, d) == c.op = d.op /\ c.key = d.key /\ d.r.ok

\* C31: a press of a key the capability records as pressed, and a release
\* of a key it does not record as pressed, succeed without any platform
\* injection and leave the capability as it was; a press (release) that
\* follows a successful press (release) of the same key leaves what the
\* first one left and injects nothing.
C31_KeyboardIdempotent ==
    probe.fn = "keyboard" =>
      \A i \in 1..Len(probe.out) :
         LET c == probe.out[i]
         IN /\ Redundant(c) =>
                 c.r.ok /\ ~c.r.injected /\ c.r.kb = c.before
            /\ (i > 1 /\ Repeats(c, probe.out[i - 1])) =>
                 ~c.r.injected /\ c.r.kb = probe.out[i - 1].r.kb

\* a press that injected is followed by a press of the same key, and a
\* release that injected by a release of the same key
C31_Witness ==
    /\ probe.fn = "keyboard"
    /\ Len(probe.out) = 3
    /\ \E i \in 2..3 :
         /\ probe.out[i].op = "press"
         /\ Repeats(probe.out[i], probe.out[i - 1])
         /\ probe.out[i - 1].r.injected
    /\ probe.out[3].op = "release"
    /\ Redundant(probe.out[3])

(***************************************************************************)
(* Properties of the default mapping, checked under SpecDefault.           *)
(***************************************************************************)
\* the layout Q 2 W 3 E R 5 T 6 Y 7 U, by pitch class
LayoutKey ==
    [pc12 \in 0..11 |->
       CASE pc12 = 0 -> "Q" [] pc12 = 1 -> "Num2" [] pc12 = 2 -> "W"
         [] pc12 = 3 -> "Num3" [] pc12 = 4 -> "E" [] pc12 = 5 -> "R"
         [] pc12 = 6 -> "Num5" [] pc12 = 7 -> "T" [] pc12 = 8 -> "Num6"
         [] pc12 = 9 -> "Y" [] pc12 = 10 -> "Num7" [] OTHER -> "U"]

\* the key of a note of the default mapping
DefaultKey(n) == IF n = 84 THEN "I" ELSE LayoutKey[n % 12]

\* the on_press sequence of a note of the default mapping
DefaultOnPress(n) ==
    IF n <= 59 THEN <<SetModifiers(FALSE, TRUE, FALSE), Press(DefaultKey(n))>>
    ELSE IF n <= 71 THEN <<Press(DefaultKey(n))>>
    ELSE <<SetModifiers(TRUE, FALSE, FALSE), Press(DefaultKey(n))>>

\* the default mapping has been created and asked for a note
AskedDefault == probe.fn = "get_mapping" /\ probe.done

\* C32: the default mapping listens on channel 0 with transposition off and
\* maps exactly the notes 48..84; 48..59 carry [SetModifiers(ctrl), Press(k)],
\* 60..71 carry [Press(k)], 72..84 carry [SetModifiers(shift), Press(k)],
\* k the key of the note's pitch class in Q 2 W 3 E R 5 T 6 Y 7 U (I for
\* 84), so that 60 and 72 carry the mapping of the higher octave.
C32_DefaultMapping ==
    AskedDefault =>
      /\ probe.config.channel = {0}
      /\ ~probe.config.octave_transpose
      /\ DOMAIN probe.config.mappings = 48..84
      /\ probe.out.found <=> probe.note \in 48..84
      /\ probe.out.found =>
            /\ probe.out.note = probe.note
            /\ probe.out.mapping.on_press = DefaultOnPress(probe.note)

\* the default mapping was asked for a boundary note and returned its entry
C32_Witness ==
    AskedDefault /\ probe.note \in {60, 72} /\ probe.out.found

(***************************************************************************)
(* The steps of play_note, checked under SpecSched.                        *)
(***************************************************************************)
\* the step of play_note an effect belongs to: 1 the release of a note key,
\* 2 the minimum-gap wait, 3 a modifier press or release, 4 the settle
\* delay, 5 the press of a note key; 0 for anything else
StepOf(e) ==
    CASE e = Slept("gap") -> 2
      [] e = Slept("settle") -> 4
      [] e.call = "sleep" -> 0
      [] e.key \in ModifierKeys -> 3
      [] e.call = "release" -> 1
      [] OTHER -> 5

\* the modifier state play_note is asked for, as a ModifierState
TargetState ==
    [shift |-> call.target_mods.shift, ctrl |-> call.target_mods.ctrl,
     alt |-> call.target_mods.alt]

\* the call a set_modifiers towards the target issues for a modifier key
TowardsTarget(e) ==
    \E i \in 1..3 :
       /\ e.key = ModifierKey[i]
       /\ e.call = IF TargetState[ModifierField[i]] THEN "press" ELSE "release"

\* play_note with a Press in its list is in progress or has just returned
InPlayNote == call.fn = "play_note" /\ call.target_key # None

\* its modifier step is over and nothing has failed
PastModifiers ==
    InPlayNote /\ result = "ok" /\ pc \in {"pn_press", "finish"}

\* the settle delay is due: the target differs from the modifier state the
\* scheduler recorded on entry, and has a modifier active
SettleDue ==
    /\ call.target_mods.some
    /\ TargetState # call.mods
    /\ TargetState.shift \/ TargetState.ctrl \/ TargetState.alt

\* C33: the effects of a play_note whose list has a Press come in the
\* order release of the held key, minimum-gap wait, modifier presses and
\* releases towards the last SetModifiers of the list, settle delay, press
\* of the new key, each but the modifier calls at most once and nothing
\* else; the settle delay is waited exactly when a modifier changed, that
\* is a modifier call was issued, and the target has a modifier active.
C33_StepOrder ==
    InPlayNote =>
      /\ \A j \in 1..Len(CallTrace) :
            LET e == CallTrace[j]
            IN /\ StepOf(e) # 0
               /\ StepOf(e) = 1 => e.key = call.held
               /\ StepOf(e) = 3 => call.target_mods.some /\ TowardsTarget(e)
               /\ StepOf(e) = 5 => e.key = call.target_key
               /\ \A i \in 1..(j - 1) :
                     \/ StepOf(CallTrace[i]) < StepOf(e)
                     \/ StepOf(CallTrace[i]) = 3 /\ StepOf(e) = 3
      /\ PastModifiers =>
            /\ (\E j \in 1..Len(CallTrace) : CallTrace[j] = Slept("settle"))
                  <=> SettleDue
            /\ SettleDue <=>
                  /\ \E j \in 1..Len(CallTrace) : StepOf(CallTrace[j]) = 3
                  /\ TargetState.shift \/ TargetState.ctrl \/ TargetState.alt
      /\ (pc = "finish" /\ result = "ok") =>
            CallTrace[Len(CallTrace)] = Issued("press", call.target_key, TRUE)

\* a play_note has gone through all five steps
C33_Witness ==
    /\ InPlayNote
    /\ pc = "finish"
    /\ result = "ok"
    /\ CallTrace = <<Issued("release", "Q", TRUE), Slept("gap"),
                     Issued("press", "Control", TRUE), Slept("settle"),
                     Issued("press", "W", TRUE)>>

(***************************************************************************)
(* The modifiers a note key is pressed with.                               *)
(***************************************************************************)
\* the modifier keys of a ModifierState
KeysOf(state) == { ModifierKey[i] : i \in {j \in 1..3 : state[ModifierField[j]]} }

\* play_note has just pressed its note key
JustPressed == InPlayNote /\ pc = "finish" /\ result = "ok"

\* C34: when play_note has pressed a note key, the modifier keys down at
\* the capability are exactly those of the last SetModifiers of the note's
\* on_press sequence, and none when the sequence has no SetModifiers.
C34_PressedWithOwnModifiers ==
    JustPressed =>
      keyboard.pressed_keys \cap ModifierKeys =
        IF call.target_mods.some THEN KeysOf(TargetState) ELSE {}

\* the same, where no injection has failed
C34_Unfailing == faults = 0 => C34_PressedWithOwnModifiers

(***************************************************************************)
(* Replacing the mapping between a NoteOn and its NoteOff, checked under   *)
(* SpecSwap.                                                               *)
(***************************************************************************)
\* the step that ends the processing of a NoteOff: the event is filtered
\* out, or resolves to no mapping, or handle_note_off has returned
NoteOffEnds ==
    /\ msg.event_type = "NoteOff"
    /\ pc \in {"lookup", "finish"}
    /\ pc' = "recv"

\* the note that was playing, and the key held for it, when the NoteOff
\* came to be processed
PlayingAtNoteOff == IF pc = "finish" THEN call.playing ELSE playing

HeldAtNoteOff == IF pc = "finish" THEN call.held ELSE current_key

\* C35: once the thread has processed the NoteOff of the note that is
\* playing, no injection having failed, the key pressed for the note is
\* released and the scheduler holds no key, whether or not the mapping was
\* replaced (channel filter, octave_transpose flag) since the NoteOn was
\* handled.
C35_NoteOffReleasesAcrossSwap ==
    [][ (NoteOffEnds /\ faults' = 0 /\ msg.note = PlayingAtNoteOff) =>
          /\ current_key' = None
          /\ HeldAtNoteOff \notin keyboard'.pressed_keys ]_vars

(***************************************************************************)
(* The release of every pressed key, checked under SpecBurst.              *)
(***************************************************************************)
\* every message of the burst has been delivered to the callback, each
\* NoteOn followed by its NoteOff, and the thread has nothing left to do:
\* the channel is empty and the thread waits in recv
BurstOver ==
    /\ delivered = ChannelCapacity + MaxOverflow
    /\ queue = << >>
    /\ pc = "recv"

\* C36: a key pressed for a NoteOn whose NoteOff the transport delivered
\* afterwards is released in the end, without release_all and whatever the
\* rate of arrival: when a burst of NoteOn/NoteOff pairs is over and no
\* injection has failed, no key is left down at the capability.
C36_EveryPressReleased ==
    (BurstOver /\ faults = 0) => keyboard.pressed_keys = {}

(***************************************************************************)
(* Balanced streams, checked under SpecBalanced.                           *)
(***************************************************************************)
\* the whole stream has been delivered and handled: the channel is empty
\* and the thread waits in recv
Drained ==
    /\ probe.fn = "stream"
    /\ delivered = Len(probe.data)
    /\ queue = << >>
    /\ pc = "recv"

PressReturnsOk == pc = "pn_press" /\ pc' = "finish" /\ result' # "err"

\* C38: when play_note's press of the key k of a NoteOn returns Ok, no
\* injection having failed, the capability has made a key-down injection
\* of k at the platform for it, in the first connection of an engine and in
\* a later one alike.
C38_FreshKeyDown ==
    [][ (PressReturnsOk /\ faults' = 0) =>
          KeyboardPress(keyboard, call.target_key, TRUE).injected ]_vars

(***************************************************************************)
(* Completeness and arithmetic of the octave search, checked under         *)
(* SpecLookup and SpecSearch.                                              *)
(***************************************************************************)
\* C39: with octave_transpose on and every key of the table a note, the
\* lookup returns a mapping exactly when the table has a key of the
\* queried note's pitch class, and what it returns is the entry of such a
\* key.
C39_TranspositionComplete ==
    (Looked /\ probe.config.octave_transpose /\ MappedNotes \subseteq 0..127)
      => /\ probe.out.found <=> MappedOctaves # {}
         /\ probe.out.found =>
               /\ probe.out.note \in MappedOctaves
               /\ ReturnsEntry(probe.out.note)

\* note 7 has been looked up in the table {0, 127}, between its keys, and
\* resolved ten octaves up after the search downwards ran out
C39_Witness ==
    /\ Looked
    /\ probe.config.octave_transpose
    /\ MappedNotes = {0, 127}
    /\ probe.note = 7
    /\ ReturnsEntry(127)

\* the values of the search are notes, and its arithmetic has stayed
\* within a u8
SearchInRange ==
    /\ ~probe.data.wrapped
    /\ probe.data.candidate \in 0..127
    /\ probe.data.down \in 0..127
    /\ probe.data.up \in 0..127

\* C40: for every note and every table whose keys are u8 values, above 127
\* included, the octave search returns; its candidates stay within 0..127
\* and no addition or subtraction leaves the range of a u8; and a note it
\* returns is within 0..127.
C40_SearchTerminatesInRange ==
    /\ [](probe.fn = "search" =>
            /\ SearchInRange
            /\ (probe.done /\ probe.out.found) => probe.out.note \in 0..127)
    /\ <>(probe.fn = "search" /\ probe.done)

\* note 8 has been looked up in a table whose only key is 200, of the same
\* pitch class: the search went up to 116 and returned nothing
C40_Witness ==
    /\ probe.fn = "search"
    /\ probe.done
    /\ DOMAIN probe.config.mappings = {200}
    /\ probe.note = 8
    /\ probe.data.candidate = 116
    /\ ~probe.out.found

=============================================================================
